---- MODULE Spec2Model ----
(***************************************************************************)
(* Model of the document structuring and chunking engine:                  *)
(*   src/use_cases/intelligent_chunking.py     (IntelligentChunker)        *)
(*   src/use_cases/html_structured_converter.py (HTMLStructuredConverter)  *)
(*   src/use_cases/document_preprocessing.py   (DocumentPreprocessor)      *)
(* Python strings are TLA+ strings; TLC evaluates Len, SubSeq and \o on    *)
(* them.  Offsets kept in records are the 0-based offsets of the source.   *)
(***************************************************************************)
EXTENDS Integers, Sequences, FiniteSets, TLC

VARIABLES
    text,        \* chunker: the text handed to IntelligentChunker.chunk
    chunk_size,  \* chunker: IntelligentChunker.chunk_size
    cpc,         \* chunker: "start" | "chunked" | "rechunked"
    sections,    \* chunker: the result of chunk_by_headers(text)
    final_chunks,\* chunker: the result of chunk(text)
    picked,      \* chunker: index of the chunk whose content was chunked again
    rechunked,   \* chunker: the result of chunk(final_chunks[picked].content)
    cells,       \* row functions: the cell texts of the row handed in
    rpc,         \* row functions: "start" | "mapped" | "flattened"
    col_to_pcn,  \* row functions: the result of _build_pcn_map(cells)
    flat,        \* row functions: parts and line of _flatten_with_currency(cells)
    table,       \* tables: the <tr> list of one table
    tpc,         \* tables: "start" | "smart" | "mali" | "flat"
    smart,       \* tables: the text of _parse_trs_smart(table) and its data rows
    mali,        \* tables: the sections of _parse_mali_veri and their data rows
    soup,        \* teklif: the parsed document, its elements in document order
    kpc,         \* teklif: "start" | "loop" | "done"
    tbodies,     \* teklif: the tbody elements _parse_teklif has still to visit
    teklif,      \* teklif: the sections _parse_teklif has appended so far
    page,        \* convert: the parsed document, its elements in document order
    vpc,         \* convert: "start" | "cleaned" | "detected" | "parsed" | "done"
    format_type, \* convert: the result of _detect_format
    parsed,      \* convert: the sections of the parser of the layout
    result,      \* convert: the text convert returns
    raw_content, \* preprocess: the content argument, markup or plain text
    file_type,   \* preprocess: the file_type argument
    flags,       \* preprocess: the clean and to_markdown arguments
    ppc,         \* preprocess: "start" | "done"
    cleanings,   \* preprocess: the number of calls of clean_html
    processed,   \* preprocess: the characters of the text preprocess returns
    upload,      \* ingestion: the uploaded file, its name and the text its extractor reads
    rag_config,  \* ingestion: chunk_size and chunk_overlap the use case was built with
    ipc,         \* ingestion: the position of execute
    calls,       \* ingestion: the collaborators called so far, in order
    frame,       \* ingestion: the local variables of execute
    outcome,     \* ingestion: what execute returned, or the exception that left it
    connected,   \* rate limit: RedisClient._redis is set
    store,       \* rate limit: the counter of the key rate_limit:<identifier> and its TTL
    callers,     \* rate limit: the calls of check_rate_limit, their position and result
    expirations, \* rate limit: the number of times Redis expired the key
    query,       \* rag query: the RAGQuery handed to execute
    qpc,         \* rag query: the position of execute
    qcalls,      \* rag query: the collaborators called so far, with their arguments
    qframe,      \* rag query: the local variables of execute
    response,    \* rag query: what execute returned, or the exception that left it
    loop         \* _chunk_text: text, configuration, start, chunks and position

chunkVars == <<text, chunk_size, cpc, sections, final_chunks, picked, rechunked>>
rowVars == <<cells, rpc, col_to_pcn, flat>>
tableVars == <<table, tpc, smart, mali>>
teklifVars == <<soup, kpc, tbodies, teklif>>
convertVars == <<page, vpc, format_type, parsed, result>>
prepVars == <<raw_content, file_type, flags, ppc, cleanings, processed>>
ingestVars == <<upload, rag_config, ipc, calls, frame, outcome>>
libVars == <<chunkVars, rowVars, tableVars, teklifVars, convertVars, prepVars>>
rateVars == <<connected, store, callers, expirations>>
ragVars == <<query, qpc, qcalls, qframe, response>>
loopVars == <<loop>>
appVars == <<ingestVars, rateVars, ragVars, loopVars>>
vars == <<libVars, appVars>>

(***************************************************************************)
(* Each specification drives one component; the variables of the others    *)
(* keep their idle values.                                                 *)
(***************************************************************************)
EmptyMap == [c \in {} |-> 0]

ChunkIdle ==
    /\ text = ""
    /\ chunk_size = 0
    /\ cpc = "idle"
    /\ sections = <<>>
    /\ final_chunks = <<>>
    /\ picked = 0
    /\ rechunked = <<>>

RowIdle ==
    /\ cells = <<>>
    /\ rpc = "idle"
    /\ col_to_pcn = EmptyMap
    /\ flat = [parts |-> <<>>, line |-> ""]

TableIdle ==
    /\ table = <<>>
    /\ tpc = "idle"
    /\ smart = [out |-> "", rows |-> <<>>]
    /\ mali = [sections |-> <<>>, rows |-> <<>>]

TeklifIdle ==
    /\ soup = <<>>
    /\ kpc = "idle"
    /\ tbodies = <<>>
    /\ teklif = <<>>

ConvertIdle ==
    /\ page = <<>>
    /\ vpc = "idle"
    /\ format_type = ""
    /\ parsed = <<>>
    /\ result = ""

\* a str argument of the preprocessor: the element tree BeautifulSoup builds
\* from it when it is markup, its characters when it is plain text
PlainText(chars) == [markup |-> FALSE, doc |-> <<>>, chars |-> chars]

Markup(doc) == [markup |-> TRUE, doc |-> doc, chars |-> <<>>]

NoFrame ==
    [text |-> "", original_length |-> 0, preprocess_type |-> "",
     chunk_objects |-> <<>>, chunks |-> <<>>, embeddings |-> <<>>,
     documents |-> <<>>, saved_docs |-> <<>>, error |-> [cls |-> "", message |-> ""]]

IngestIdle ==
    /\ upload = [filename |-> "", text |-> ""]
    /\ rag_config = [chunk_size |-> 0, chunk_overlap |-> 0]
    /\ ipc = "idle"
    /\ calls = <<>>
    /\ frame = NoFrame
    /\ outcome = [kind |-> "none"]

RateIdle ==
    /\ connected = FALSE
    /\ store = [count |-> 0, ttl |-> 0]
    /\ callers = <<>>
    /\ expirations = 0

NoQueryFrame ==
    [query_embedding |-> <<>>, documents |-> <<>>, sources |-> <<>>,
     prompt |-> "", answer |-> "", error |-> ""]

RagIdle ==
    /\ query = [query |-> "", top_k |-> 0, temperature |-> 0, user_id |-> ""]
    /\ qpc = "idle"
    /\ qcalls = <<>>
    /\ qframe = NoQueryFrame
    /\ response = [kind |-> "none"]

LoopIdle ==
    loop = [text |-> "", chunk_size |-> 0, chunk_overlap |-> 0, start |-> 0,
            chunks |-> <<>>, pc |-> "idle"]

AppIdle == IngestIdle /\ RateIdle /\ RagIdle /\ LoopIdle

PrepIdle ==
    /\ raw_content = PlainText(<<>>)
    /\ file_type = ""
    /\ flags = [clean |-> FALSE, to_markdown |-> FALSE]
    /\ ppc = "idle"
    /\ cleanings = 0
    /\ processed = <<>>

(***************************************************************************)
(* Python str helpers                                                      *)
(***************************************************************************)
Ch(s, i) == SubSeq(s, i, i)

Max(S) == CHOOSE x \in S : \A y \in S : y <= x
Min(S) == CHOOSE x \in S : \A y \in S : x <= y

\* the characters str.strip() removes and the regex class \s matches
Whitespace == {" ", "\t", "\n", "\r", "\f"}

\* the first position >= i of s that holds no whitespace (Len(s) + 1 if none)
LStripFrom(s, i) ==
    Min({k \in i..Len(s) : Ch(s, k) \notin Whitespace} \cup {Len(s) + 1})

\* the last position <= j of s that holds no whitespace (0 if none)
RStripTo(s, j) ==
    Max({k \in 1..j : Ch(s, k) \notin Whitespace} \cup {0})

\* str.strip()
Strip(s) ==
    LET a == LStripFrom(s, 1)
        b == RStripTo(s, Len(s))
    IN  IF a > b THEN "" ELSE SubSeq(s, a, b)

\* str.find(sub, i) with 1-based positions; 0 when sub does not occur
FindFrom(s, sub, i) ==
    LET hits == {k \in i..(Len(s) - Len(sub) + 1) :
                    SubSeq(s, k, k + Len(sub) - 1) = sub}
    IN  IF hits = {} THEN 0 ELSE Min(hits)

IsSubstr(sub, s) == FindFrom(s, sub, 1) > 0

\* str.split(sep)
RECURSIVE SplitFrom(_, _, _)
SplitFrom(s, sep, i) ==
    LET k == FindFrom(s, sep, i)
    IN  IF k = 0 THEN << IF i > Len(s) THEN "" ELSE SubSeq(s, i, Len(s)) >>
        ELSE << SubSeq(s, i, k - 1) >> \o SplitFrom(s, sep, k + Len(sep))

Split(s, sep) == SplitFrom(s, sep, 1)

\* sep.join(parts)
RECURSIVE Join(_, _)
Join(sep, parts) ==
    IF Len(parts) = 0 THEN ""
    ELSE IF Len(parts) = 1 THEN parts[1]
    ELSE parts[1] \o sep \o Join(sep, Tail(parts))

(***************************************************************************)
(* IntelligentChunker                                                      *)
(***************************************************************************)
\* the discard threshold of chunk(): len(content.strip()) < 50
MinChunkLen == 50

\* the length of the run of "#" that starts at i
CountHashes(s, i) ==
    Min({k \in i..Len(s) : Ch(s, k) # "#"} \cup {Len(s) + 1}) - i

\* the length of the run of whitespace that starts at i
SpaceRun(s, i) == LStripFrom(s, i) - i

\* the last position of the run of non-newline characters that starts at i
LineEnd(s, i) ==
    Min({k \in i..Len(s) : Ch(s, k) = "\n"} \cup {Len(s) + 1}) - 1

\* One attempt of the pattern ^(#{1,6})\s+(.+)$ (re.MULTILINE) at position p,
\* which is the start of a line: <<match>> or <<>>.  The hashes are followed by
\* whitespace, so group 1 is the whole run of hashes; \s+ is greedy and gives
\* characters back until a non-newline character follows it; .+ runs to the
\* end of that line.
MatchHeaderAt(s, p) ==
    LET h  == CountHashes(s, p)
        w  == SpaceRun(s, p + h)
        js == {j \in 1..w : p + h + j <= Len(s) /\ Ch(s, p + h + j) # "\n"}
    IN  IF h < 1 \/ h > 6 \/ js = {} THEN <<>>
        ELSE LET g == p + h + Max(js)
                 e == LineEnd(s, g)
             IN  << [title |-> Strip(SubSeq(s, g, e)), level |-> h,
                     start |-> p - 1, end |-> e] >>

\* the starts of lines: position 1 and the positions after a newline
LineStarts(s) == {p \in 1..Len(s) : p = 1 \/ Ch(s, p - 1) = "\n"}

\* re.finditer: the leftmost match at or after p, then on from its end
RECURSIVE FindSectionsFrom(_, _)
FindSectionsFrom(s, p) ==
    LET at == {q \in LineStarts(s) : q >= p /\ MatchHeaderAt(s, q) # <<>>}
    IN  IF at = {} THEN <<>>
        ELSE LET m == MatchHeaderAt(s, Min(at))
             IN  m \o FindSectionsFrom(s, m[1].end + 1)

\* find_sections: [(title, level, start_pos, end_pos), ...]
find_sections(s) == FindSectionsFrom(s, 1)

\* mutant: a paragraph joins the accumulator whenever it is itself shorter
\* than chunk_size, whatever the accumulator already holds
RECURSIVE ParagraphLoop_IgnoreAccumulator(_, _, _, _, _)
ParagraphLoop_IgnoreAccumulator(paragraphs, k, st, size, header) ==
    IF k > Len(paragraphs) THEN st
    ELSE IF Len(paragraphs[k]) < size
         THEN ParagraphLoop_IgnoreAccumulator(paragraphs, k + 1,
                  [chunks |-> st.chunks,
                   current |-> st.current \o paragraphs[k] \o "\n\n"],
                  size, header)
         ELSE ParagraphLoop_IgnoreAccumulator(paragraphs, k + 1,
                  [chunks |->
                      IF st.current # ""
                      THEN Append(st.chunks,
                               [content |-> Strip(st.current), header |-> header,
                                level |-> 0, position |-> Len(st.chunks)])
                      ELSE st.chunks,
                   current |-> paragraphs[k] \o "\n\n"], size, header)

\* _chunk_by_paragraphs: the loop over the paragraphs; st = [chunks, current]
RECURSIVE ParagraphLoop(_, _, _, _, _)
ParagraphLoop(paragraphs, k, st, size, header) ==
    IF k > Len(paragraphs) THEN st
    ELSE LET para == paragraphs[k]
             flushed ==
                 IF st.current # ""
                 THEN Append(st.chunks,
                             [content |-> Strip(st.current), header |-> header,
                              level |-> 0, position |-> Len(st.chunks)])
                 ELSE st.chunks
         IN  IF Len(st.current) + Len(para) < size
             THEN ParagraphLoop(paragraphs, k + 1,
                      [chunks |-> st.chunks,
                       current |-> st.current \o para \o "\n\n"], size, header)
             ELSE ParagraphLoop(paragraphs, k + 1,
                      [chunks |-> flushed, current |-> para \o "\n\n"],
                      size, header)

\* mutant: the accumulator left after the last paragraph is not flushed
chunk_by_paragraphs_NoLastFlush(s, size, header) ==
    LET byBlank    == Split(s, "\n\n")
        paragraphs == IF Len(byBlank) <= 1 THEN Split(s, "\n") ELSE byBlank
    IN  ParagraphLoop(paragraphs, 1, [chunks |-> <<>>, current |-> ""],
                      size, header).chunks

\* _chunk_by_paragraphs(text, header); header is <<>> for None, <<h>> for h
chunk_by_paragraphs(s, size, header) ==
    LET byBlank    == Split(s, "\n\n")
        paragraphs == IF Len(byBlank) <= 1 THEN Split(s, "\n") ELSE byBlank
        st == ParagraphLoop(paragraphs, 1, [chunks |-> <<>>, current |-> ""],
                            size, header)
    IN  IF st.current # ""
        THEN Append(st.chunks,
                    [content |-> Strip(st.current), header |-> header,
                     level |-> 0, position |-> Len(st.chunks)])
        ELSE st.chunks

\* mutant: the deeper levels are not dropped when a heading is visited
UpdateParents_KeepDeeper(parent_headers, title, level) ==
    [lv \in (DOMAIN parent_headers) \cup {level} |->
        IF lv = level THEN title ELSE parent_headers[lv]]

\* chunk_by_headers, the update of parent_headers on visiting (title, level):
\* record the title at its level, drop the deeper levels
UpdateParents(parent_headers, title, level) ==
    [lv \in {l \in (DOMAIN parent_headers) \cup {level} : l <= level} |->
        IF lv = level THEN title ELSE parent_headers[lv]]

\* the titles of parent_headers at the levels in lvs, in increasing level order
RECURSIVE TitlesInOrder(_, _)
TitlesInOrder(parent_headers, lvs) ==
    IF lvs = {} THEN <<>>
    ELSE LET m == Min(lvs)
         IN  <<parent_headers[m]>> \o TitlesInOrder(parent_headers, lvs \ {m})

\* chunk_by_headers, the composite header of a section
CompositeHeader(parent_headers, title, level) ==
    LET composite_parts ==
            Append(TitlesInOrder(parent_headers,
                       {lv \in DOMAIN parent_headers : lv < level}), title)
    IN  IF Len(composite_parts) > 1 THEN Join(" > ", composite_parts) ELSE title

\* chunk_by_headers: the loop over the sections
RECURSIVE HeaderLoop(_, _, _, _, _)
HeaderLoop(s, secs, i, parent_headers, chunks) ==
    IF i > Len(secs) THEN chunks
    ELSE LET sec == secs[i]
             next_start == IF i + 1 <= Len(secs) THEN secs[i + 1].start ELSE Len(s)
             section_text == Strip(SubSeq(s, sec.start + 1, next_start))
             ph == UpdateParents(parent_headers, sec.title, sec.level)
             composite_header == CompositeHeader(ph, sec.title, sec.level)
         IN  HeaderLoop(s, secs, i + 1, ph,
                 IF section_text # ""
                 THEN Append(chunks,
                          [content |-> section_text,
                           header |-> <<composite_header>>,
                           level |-> sec.level, position |-> i - 1])
                 ELSE chunks)

chunk_by_headers(s, size) ==
    LET secs == find_sections(s)
    IN  IF Len(secs) = 0 THEN chunk_by_paragraphs(s, size, <<>>)
        ELSE HeaderLoop(s, secs, 1, <<>>, <<>>)

\* len(content) > chunk_size * 1.2, in integers
Oversized(content, size) == 5 * Len(content) > 6 * size

\* mutant: the sub-chunks of a re-split chunk do not get the parent's header
PostPass_DropHeader(c, size) ==
    IF Len(Strip(c.content)) < MinChunkLen THEN <<>>
    ELSE IF Oversized(c.content, size)
         THEN LET sub_chunks == chunk_by_paragraphs(c.content, size, <<>>)
              IN  [k \in 1..Len(sub_chunks) |->
                      [sub_chunks[k] EXCEPT !.level = c.level]]
         ELSE <<c>>

\* chunk, what one chunk c of chunk_by_headers contributes to final_chunks
PostPass(c, size) ==
    IF Len(Strip(c.content)) < MinChunkLen THEN <<>>
    ELSE IF Oversized(c.content, size)
         THEN LET sub_chunks == chunk_by_paragraphs(c.content, size, c.header)
              IN  [k \in 1..Len(sub_chunks) |->
                      [sub_chunks[k] EXCEPT !.header = c.header,
                                            !.level = c.level]]
         ELSE <<c>>

RECURSIVE PostPassAll(_, _, _)
PostPassAll(chunks, k, size) ==
    IF k > Len(chunks) THEN <<>>
    ELSE PostPass(chunks[k], size) \o PostPassAll(chunks, k + 1, size)

\* chunk(text)
chunk(s, size) == PostPassAll(chunk_by_headers(s, size), 1, size)

(***************************************************************************)
(* Inputs of the chunker                                                   *)
(***************************************************************************)
MaxBlocks == 3
MaxPieces == 4

X25 == "xxxxxxxxxxxxxxxxxxxxxxxxx"
X75 == X25 \o X25 \o X25

\* a heading line followed by a body line of 75 characters
HeadingBlocks == { "# T\n" \o X75 \o "\n", "## A\n" \o X75 \o "\n",
                   "### B\n" \o X75 \o "\n", "### C\n" \o X75 \o "\n" }
\* a long line, a short line, a blank line, a heading line
Pieces == { X75 \o "\n", "yyyyyyyyyyyyyyyyyyyyyyyyy\n", "\n", "## A\n" }

ChunkSizes == {60, 100}

RECURSIVE Concat(_)
Concat(ss) == IF Len(ss) = 0 THEN "" ELSE ss[1] \o Concat(Tail(ss))

SeqsUpTo(S, n) == UNION {[1..k -> S] : k \in 0..n}

Texts == {Concat(ss) : ss \in SeqsUpTo(HeadingBlocks, MaxBlocks)}
            \cup {Concat(ss) : ss \in SeqsUpTo(Pieces, MaxPieces)}

InitChunk ==
    /\ text \in Texts
    /\ chunk_size \in ChunkSizes
    /\ cpc = "start"
    /\ sections = <<>>
    /\ final_chunks = <<>>
    /\ picked = 0
    /\ rechunked = <<>>
    /\ RowIdle
    /\ TableIdle
    /\ TeklifIdle
    /\ ConvertIdle
    /\ PrepIdle
    /\ AppIdle

\* IntelligentChunker(chunk_size).chunk(text)
Chunk ==
    /\ cpc = "start"
    /\ sections' = chunk_by_headers(text, chunk_size)
    /\ final_chunks' = chunk(text, chunk_size)
    /\ cpc' = "chunked"
    /\ UNCHANGED <<text, chunk_size, picked, rechunked, rowVars, tableVars, teklifVars, convertVars,
                   prepVars, appVars>>

\* IntelligentChunker(chunk_size).chunk(c.content) for a chunk c of the result
Rechunk ==
    /\ cpc = "chunked"
    /\ \E k \in 1..Len(final_chunks) :
          /\ picked' = k
          /\ rechunked' = chunk(final_chunks[k].content, chunk_size)
    /\ cpc' = "rechunked"
    /\ UNCHANGED <<text, chunk_size, sections, final_chunks, rowVars, tableVars, teklifVars, convertVars,
                   prepVars, appVars>>

NextChunk == Chunk \/ Rechunk

SpecChunk == InitChunk /\ [][NextChunk]_vars

(***************************************************************************)
(* HTMLStructuredConverter: the functions of one row                       *)
(* Column indexes are the 0-based indexes of the source; cell i of a row   *)
(* is row[i + 1].                                                          *)
(***************************************************************************)
\* PCN_KEYWORDS; the keywords spelled with a dotted capital I ("PARA CINSI",
\* "DOVIZ", "DOVIZ CINSI", "P.CINSI" and "PARA BIRIMI" in their Turkish
\* spelling) cannot be written in a TLA+ string and no cell of the model
\* holds them
PCN_KEYWORDS == {"PCN", "P.C.N", "CUR", "CURRENCY", "PARA BIRIMI"}

CURRENCY_CODES == {"TRY", "USD", "EUR", "GBP", "CHF", "JPY", "TL"}

LowerCase == "abcdefghijklmnopqrstuvwxyzçöü"
UpperCase == "ABCDEFGHIJKLMNOPQRSTUVWXYZÇÖÜ"

\* str.upper()
RECURSIVE Upper(_)
Upper(s) ==
    IF Len(s) = 0 THEN ""
    ELSE LET k == FindFrom(LowerCase, Ch(s, 1), 1)
         IN  (IF k = 0 THEN Ch(s, 1) ELSE Ch(UpperCase, k)) \o Upper(Tail(s))

\* str.rstrip(".")
RStripDots(s) ==
    SubSeq(s, 1, Max({k \in 1..Len(s) : Ch(s, k) # "."} \cup {0}))

\* h.upper().strip().rstrip(".") in self.PCN_KEYWORDS
IsPcnHeader(h) == RStripDots(Strip(Upper(h))) \in PCN_KEYWORDS

\* the indexes of the PCN columns of a header row
PcnIndices(headers) ==
    {i \in 0..(Len(headers) - 1) : IsPcnHeader(headers[i + 1])}

\* _build_pcn_map: the loop over pcn_indices, left to right
RECURSIVE PcnMapLoop(_, _, _)
PcnMapLoop(pcns, prev_boundary, map) ==
    IF pcns = {} THEN map
    ELSE LET pcn_idx == Min(pcns)
             cols == {c \in prev_boundary..(pcn_idx - 1) : c # 0}
         IN  PcnMapLoop(pcns \ {pcn_idx}, pcn_idx + 1,
                 [c \in (DOMAIN map) \cup cols |->
                     IF c \in cols THEN pcn_idx ELSE map[c]])

\* mutant: the row-label column 0 is not left out
build_pcn_map_LabelMapped(headers) ==
    LET pcns == PcnIndices(headers)
    IN  [c \in {x \in 0..(Len(headers) - 1) :
                   x \notin pcns /\ \E q \in pcns : q > x} |->
            Min({q \in pcns : q > c})]

\* mutant: the value columns after the last PCN column are given to it
build_pcn_map_TrailingMapped(headers) ==
    LET pcns == PcnIndices(headers)
        base == PcnMapLoop(pcns, 0, EmptyMap)
        tail == IF pcns = {} THEN {}
                ELSE (Max(pcns) + 1)..(Len(headers) - 1)
    IN  [c \in (DOMAIN base) \cup tail |->
            IF c \in tail THEN Max(pcns) ELSE base[c]]

\* _build_pcn_map(headers): {value column index: pcn column index}
build_pcn_map(headers) == PcnMapLoop(PcnIndices(headers), 0, EmptyMap)

\* texts[i + 1].strip().upper() in self.CURRENCY_CODES
IsCurrencyCode(t) == Upper(Strip(t)) \in CURRENCY_CODES

\* mutant: the currency code is compared as written, not upper-cased
IsCurrencyCell_CaseSensitive(t) == Strip(t) \in CURRENCY_CODES

\* the test of _flatten_with_currency on the cell after a value
IsCurrencyCell(t) == IsCurrencyCode(t)

\* _flatten_with_currency: the while loop from cell i on.  A part records
\* the cell it was built from (col) and the cell appended to it (marker, -1
\* when none) beside its text.
RECURSIVE FlattenLoop(_, _)
FlattenLoop(texts, i) ==
    IF i >= Len(texts) THEN <<>>
    ELSE LET val == Strip(texts[i + 1])
         IN  IF i + 1 < Len(texts) /\ IsCurrencyCell(texts[i + 2])
             THEN << [col |-> i, marker |-> i + 1,
                      text |-> val \o " " \o Strip(texts[i + 2])] >>
                  \o FlattenLoop(texts, i + 2)
             ELSE << [col |-> i, marker |-> -1, text |-> val] >>
                  \o FlattenLoop(texts, i + 1)

PartTexts(parts) == [k \in 1..Len(parts) |-> parts[k].text]

\* "label: part, part" when there are parts, else the label
LabelLine(label, parts) ==
    IF Len(parts) > 0 THEN label \o ": " \o Join(", ", PartTexts(parts))
    ELSE label

\* _flatten_with_currency(texts)
flatten_with_currency(texts) ==
    IF Len(texts) = 0 THEN ""
    ELSE LabelLine(texts[1], FlattenLoop(texts, 1))

(***************************************************************************)
(* HTMLStructuredConverter: tables                                         *)
(* A <tr> is the record of what the code reads of it: cells, the           *)
(* get_text(strip=True) of its direct td/th children; text, its own        *)
(* get_text(strip=True); bold, _is_bold_cell of its first cell.            *)
(***************************************************************************)
Digits == {"0", "1", "2", "3", "4", "5", "6", "7", "8", "9"}

IsDigitAt(s, k) == k >= 1 /\ k <= Len(s) /\ Ch(s, k) \in Digits

\* re.search(r'(\d{4}[/\-]\d{1,2})', h): <<group 1>>, or <<>> for no match
PeriodOf(h) ==
    LET at == {k \in 1..Len(h) :
                  /\ \A d \in 0..3 : IsDigitAt(h, k + d)
                  /\ k + 4 <= Len(h) /\ Ch(h, k + 4) \in {"/", "-"}
                  /\ IsDigitAt(h, k + 5)}
    IN  IF at = {} THEN <<>>
        ELSE LET k == Min(at)
             IN  << SubSeq(h, k, IF IsDigitAt(h, k + 6) THEN k + 6 ELSE k + 5) >>

\* period_cols: {column index: period} of a header row
PeriodCols(headers) ==
    [i \in {c \in 0..(Len(headers) - 1) : PeriodOf(headers[c + 1]) # <<>>} |->
        PeriodOf(headers[i + 1])[1]]

\* _find_header_row: the index of the first row of three or more cells, or -1
find_header_row(trs) ==
    LET idx == {k \in 1..Len(trs) : Len(trs[k].cells) >= 3}
    IN  IF idx = {} THEN -1 ELSE Min(idx) - 1

\* the PCN value a value column gets: values[col_to_pcn[i]].strip(), or ""
PcnOf(map, values, i) ==
    IF i \in DOMAIN map /\ map[i] < Len(values)
    THEN Strip(values[map[i] + 1]) ELSE ""

\* _parse_trs_smart: the part of column i of a data row, <<part>> or <<>>
SmartPart(headers, values, i) ==
    IF i \in PcnIndices(headers) \/ i >= Len(values) THEN <<>>
    ELSE LET value == Strip(values[i + 1])
             pcn == PcnOf(build_pcn_map(headers), values, i)
             period_cols == PeriodCols(headers)
             marker == IF pcn # "" THEN build_pcn_map(headers)[i] ELSE -1
         IN  IF value = "" THEN <<>>
             ELSE IF i \in DOMAIN period_cols
             THEN << [col |-> i, marker |-> marker,
                      text |-> period_cols[i] \o " döneminde " \o value
                               \o (IF pcn # "" THEN " " \o pcn ELSE "")] >>
             ELSE IF pcn # ""
             THEN << [col |-> i, marker |-> marker,
                      text |-> headers[i + 1] \o " " \o value \o " " \o pcn] >>
             ELSE << [col |-> i, marker |-> -1,
                      text |-> headers[i + 1] \o ": " \o value] >>

RECURSIVE SmartParts(_, _, _)
SmartParts(headers, values, i) ==
    IF i >= Len(headers) THEN <<>>
    ELSE SmartPart(headers, values, i) \o SmartParts(headers, values, i + 1)

AllBlank(values) == \A k \in 1..Len(values) : Strip(values[k]) = ""

\* mutant: a row of several cells of which one is non-empty is a sub-heading
SmartRow_OneNonEmptyIsHeading(headers, values) ==
    IF Len(values) = 0 \/ AllBlank(values)
    THEN [kind |-> "skip", headers |-> headers, values |-> values,
          parts |-> <<>>, lines |-> <<>>]
    ELSE IF Len(SelectSeq(values, LAMBDA v : Strip(v) # "")) = 1
    THEN [kind |-> "heading", headers |-> headers, values |-> values,
          parts |-> <<>>,
          lines |-> << "\n### "
                       \o Strip(SelectSeq(values, LAMBDA v : Strip(v) # "")[1]) >>]
    ELSE [kind |-> "data", headers |-> headers, values |-> values,
          parts |-> SmartParts(headers, values, 1),
          lines |-> << LabelLine(values[1], SmartParts(headers, values, 1)) >>]

\* _parse_trs_smart: one data row; kind is "skip", "heading" or "data"
SmartRow(headers, values) ==
    IF Len(values) = 0 \/ AllBlank(values)
    THEN [kind |-> "skip", headers |-> headers, values |-> values,
          parts |-> <<>>, lines |-> <<>>]
    ELSE IF Len(values) = 1
    THEN [kind |-> "heading", headers |-> headers, values |-> values,
          parts |-> <<>>, lines |-> << "\n### " \o Strip(values[1]) >>]
    ELSE LET parts == SmartParts(headers, values, 1)
         IN  [kind |-> "data", headers |-> headers, values |-> values,
              parts |-> parts,
              lines |-> IF Len(parts) > 0 \/ values[1] # ""
                        THEN << LabelLine(values[1], parts) >> ELSE <<>>]

RECURSIVE FlatLines(_)
FlatLines(rows) ==
    IF Len(rows) = 0 THEN <<>> ELSE rows[1].lines \o FlatLines(Tail(rows))

NonEmpty(texts) == SelectSeq(texts, LAMBDA t : t # "")

\* _parse_simple_trs: the line of one row
SimpleRowLines(tr) ==
    LET texts == NonEmpty(tr.cells)
    IN  IF Len(texts) = 0 THEN <<>>
        ELSE IF Len(texts) = 1 THEN << texts[1] >>
        ELSE IF Len(texts) = 2 THEN << texts[1] \o ": " \o texts[2] >>
        ELSE << flatten_with_currency(texts) >>

TitleLines(prefix, title) == IF title # "" THEN << prefix \o title >> ELSE <<>>

\* _parse_simple_trs(trs, section_title)
parse_simple_trs(trs, section_title) ==
    Join("\n", TitleLines("## ", section_title)
               \o FlatLines([k \in 1..Len(trs) |->
                                [lines |-> SimpleRowLines(trs[k])]]))

\* _parse_trs_smart: the data rows after the header row
SmartRows(trs, header_idx) ==
    [k \in 1..(Len(trs) - header_idx - 1) |->
        SmartRow(trs[header_idx + 1].cells, trs[header_idx + 1 + k].cells)]

\* _parse_trs_smart(trs, section_title)
parse_trs_smart(trs, section_title) ==
    IF Len(trs) = 0 THEN ""
    ELSE LET header_idx == find_header_row(trs)
         IN  IF header_idx < 0 THEN parse_simple_trs(trs, section_title)
             ELSE Join("\n",
                    TitleLines("## ", section_title)
                    \o FlatLines([k \in 1..header_idx |->
                          [lines |-> TitleLines("### ", trs[k].text)]])
                    \o FlatLines(SmartRows(trs, header_idx)))

\* _process_mali_section: the first row is a header row when a cell of it
\* holds a period or the word "dönem" or "period" (re.IGNORECASE)
MaliHeaders(first_texts) ==
    IF \/ DOMAIN PeriodCols(first_texts) # {}
       \/ \E k \in 1..Len(first_texts) :
             \/ IsSubstr("DÖNEM", Upper(first_texts[k]))
             \/ IsSubstr("PERIOD", Upper(first_texts[k]))
    THEN first_texts ELSE <<>>

\* _process_mali_section: the part of cell i of a data row, <<part>> or <<>>
MaliPart(headers, period_cols, texts, i) ==
    IF i \in PcnIndices(headers) THEN <<>>
    ELSE LET val == Strip(texts[i + 1])
             map == IF Len(headers) > 0 THEN build_pcn_map(headers) ELSE EmptyMap
             pcn == PcnOf(map, texts, i)
             named == Len(headers) > 0 /\ i < Len(headers)
             out == IF pcn # ""
                    THEN (IF i \in DOMAIN period_cols
                          THEN period_cols[i] \o " döneminde " \o val \o " " \o pcn
                          ELSE IF named
                          THEN headers[i + 1] \o " " \o val \o " " \o pcn
                          ELSE val \o " " \o pcn)
                    ELSE IF i \in DOMAIN period_cols
                    THEN period_cols[i] \o " döneminde " \o val
                    ELSE IF named /\ headers[i + 1] # ""
                    THEN headers[i + 1] \o ": " \o val
                    ELSE val
         IN  IF val = "" THEN <<>>
             ELSE << [col |-> i, marker |-> IF pcn # "" THEN map[i] ELSE -1,
                      text |-> out] >>

RECURSIVE MaliParts(_, _, _, _)
MaliParts(headers, period_cols, texts, i) ==
    IF i >= Len(texts) THEN <<>>
    ELSE MaliPart(headers, period_cols, texts, i)
         \o MaliParts(headers, period_cols, texts, i + 1)

\* _process_mali_section: one data row
MaliRow(headers, period_cols, tr) ==
    LET texts == tr.cells
    IN  IF Len(texts) = 0 \/ AllBlank(texts)
        THEN [kind |-> "skip", headers |-> headers, values |-> texts,
              parts |-> <<>>, lines |-> <<>>]
        ELSE IF tr.bold /\ Len(SelectSeq(texts, LAMBDA t : Strip(t) # "")) <= 1
        THEN [kind |-> "heading", headers |-> headers, values |-> texts,
              parts |-> <<>>, lines |-> << "\n### " \o texts[1] >>]
        ELSE LET parts == MaliParts(headers, period_cols, texts, 1)
             IN  [kind |-> "data", headers |-> headers, values |-> texts,
                  parts |-> parts,
                  lines |-> IF Len(parts) > 0 \/ texts[1] # ""
                            THEN << LabelLine(texts[1], parts) >> ELSE <<>>]

\* _process_mali_section: the data rows of a section
MaliRows(data_trs) ==
    IF Len(data_trs) = 0 THEN <<>>
    ELSE LET first_texts == data_trs[1].cells
             headers == MaliHeaders(first_texts)
             data_start == IF Len(headers) > 0 THEN 1 ELSE 0
         IN  [k \in 1..(Len(data_trs) - data_start) |->
                 MaliRow(headers, PeriodCols(first_texts),
                         data_trs[data_start + k])]

\* _process_mali_section(title, data_trs)
process_mali_section(title, data_trs) ==
    IF Len(data_trs) = 0 THEN ""
    ELSE Join("\n", TitleLines("## ", title) \o FlatLines(MaliRows(data_trs)))

\* mutant: a row with at most one non-empty cell is a section break, whatever
\* its number of cells and the length of its text
RECURSIVE MaliGroups_BreakOnOneNonEmpty(_, _, _, _)
MaliGroups_BreakOnOneNonEmpty(all_trs, k, current_title, current_data_trs) ==
    LET flush == IF Len(current_data_trs) > 0
                 THEN << [title |-> current_title, data_trs |-> current_data_trs] >>
                 ELSE <<>>
    IN  IF k > Len(all_trs) THEN flush
        ELSE IF Len(SelectSeq(all_trs[k].cells, LAMBDA t : t # "")) <= 1
             THEN flush \o MaliGroups_BreakOnOneNonEmpty(all_trs, k + 1,
                               all_trs[k].text, <<>>)
             ELSE MaliGroups_BreakOnOneNonEmpty(all_trs, k + 1, current_title,
                               Append(current_data_trs, all_trs[k]))

\* _parse_mali_veri, the loop over the rows of one top-level table: the runs
\* of rows of two or more cells, each with the title row before it
RECURSIVE MaliGroups(_, _, _, _)
MaliGroups(all_trs, k, current_title, current_data_trs) ==
    LET flush == IF Len(current_data_trs) > 0
                 THEN << [title |-> current_title, data_trs |-> current_data_trs] >>
                 ELSE <<>>
    IN  IF k > Len(all_trs) THEN flush
        ELSE LET tr == all_trs[k]
                 non_empty_texts == NonEmpty(tr.cells)
                 txt == IF Len(non_empty_texts) > 0 THEN non_empty_texts[1] ELSE ""
             IN  IF Len(tr.cells) <= 1
                 THEN (IF txt # "" /\ Len(txt) > 3
                       THEN flush \o MaliGroups(all_trs, k + 1, txt, <<>>)
                       ELSE MaliGroups(all_trs, k + 1, current_title,
                                       current_data_trs))
                 ELSE MaliGroups(all_trs, k + 1, current_title,
                                 Append(current_data_trs, tr))

RECURSIVE ConcatSeqs(_)
ConcatSeqs(ss) == IF Len(ss) = 0 THEN <<>> ELSE ss[1] \o ConcatSeqs(Tail(ss))

\* _parse_mali_veri for one top-level table: its sections
parse_mali_veri(all_trs) ==
    LET groups == MaliGroups(all_trs, 1, "", <<>>)
    IN  SelectSeq([g \in 1..Len(groups) |->
                      process_mali_section(groups[g].title, groups[g].data_trs)],
                  LAMBDA section_text : section_text # "")

(***************************************************************************)
(* Inputs and operations of the table functions                            *)
(***************************************************************************)
MaxRows == 3

Tr(row, bold) == [cells |-> row, text |-> Concat(row), bold |-> bold]

TitleRow   == Tr(<<"LIMIT BILGILERI">>, TRUE)
HeaderRow  == Tr(<<"Kalem", "Risk", "PCN", "Mevcut Limit">>, TRUE)
DataRow    == Tr(<<"UMUMI", "1.346.045.880", "TRY", "2.025.000.000">>, FALSE)
\* the row of the no-header scenario; its label is written without the
\* cedilla and the dotted capital I of the source's spelling
CekRow     == Tr(<<"CEK KARNESI", "0", "2.000.000", "TRY", "5.000.000", "TRY">>,
                 FALSE)
CodesRow   == Tr(<<"NAKIT", "100", "TRY", "USD">>, FALSE)
PairRow    == Tr(<<"Vade", "12 ay">>, FALSE)
PeriodRow  == Tr(<<"Kalem", "2024/6", "pcn.", "2023/12">>, TRUE)
BreakRow   == Tr(<<"ARA TOPLAM", "", "">>, TRUE)
\* a one-cell row whose text has no more than three characters
ShortRow   == Tr(<<"NOT">>, TRUE)

Rows == {TitleRow, HeaderRow, DataRow, CekRow, CodesRow, PairRow, PeriodRow,
         BreakRow, ShortRow}

InitTable ==
    /\ table \in UNION {[1..n -> Rows] : n \in 1..MaxRows}
    /\ tpc = "start"
    /\ smart = [out |-> "", rows |-> <<>>]
    /\ mali = [sections |-> <<>>, rows |-> <<>>]
    /\ ChunkIdle
    /\ RowIdle
    /\ TeklifIdle
    /\ ConvertIdle
    /\ PrepIdle
    /\ AppIdle

\* _parse_trs_smart(table)
ParseTrsSmart ==
    /\ tpc = "start"
    /\ smart' = [out |-> parse_trs_smart(table, ""),
                 rows |-> IF find_header_row(table) < 0 THEN <<>>
                          ELSE SmartRows(table, find_header_row(table))]
    /\ tpc' = "smart"
    /\ UNCHANGED <<table, mali, chunkVars, rowVars, teklifVars, convertVars, prepVars, appVars>>

\* _parse_mali_veri on a document whose only table has the rows table
ParseMaliVeri ==
    /\ tpc = "smart"
    /\ mali' = [sections |-> parse_mali_veri(table),
                rows |-> LET groups == MaliGroups(table, 1, "", <<>>)
                         IN  ConcatSeqs([g \in 1..Len(groups) |->
                                            MaliRows(groups[g].data_trs)])]
    /\ tpc' = "mali"
    /\ UNCHANGED <<table, smart, chunkVars, rowVars, teklifVars, convertVars, prepVars, appVars>>

\* _flatten_with_currency on the non-empty cells of a row of three or more,
\* as _parse_simple_trs hands them over
FlattenRow ==
    /\ tpc = "mali"
    /\ \E k \in 1..Len(table) :
          LET texts == NonEmpty(table[k].cells)
          IN  /\ Len(texts) >= 3
              /\ cells' = texts
              /\ flat' = [parts |-> FlattenLoop(texts, 1),
                          line |-> flatten_with_currency(texts)]
    /\ tpc' = "flat"
    /\ UNCHANGED <<table, smart, mali, chunkVars, rpc, col_to_pcn, teklifVars, convertVars,
                   prepVars, appVars>>

NextTable == ParseTrsSmart \/ ParseMaliVeri \/ FlattenRow

SpecTable == InitTable /\ [][NextTable]_vars

(***************************************************************************)
(* Inputs and operations of the row functions                              *)
(***************************************************************************)
MaxCells == 4

\* cell texts as get_text(strip=True) returns them: a plain header, marker
\* headers, currency codes, an amount
CellTexts == {"Kalem", "PCN", "p.c.n.", "TRY", "usd", "5.000"}

InitRow ==
    /\ cells \in UNION {[1..n -> CellTexts] : n \in 1..MaxCells}
    /\ rpc = "start"
    /\ col_to_pcn = EmptyMap
    /\ flat = [parts |-> <<>>, line |-> ""]
    /\ ChunkIdle
    /\ TableIdle
    /\ TeklifIdle
    /\ ConvertIdle
    /\ PrepIdle
    /\ AppIdle

\* _build_pcn_map(cells), the row taken as a header row
BuildPcnMap ==
    /\ rpc = "start"
    /\ col_to_pcn' = build_pcn_map(cells)
    /\ rpc' = "mapped"
    /\ UNCHANGED <<cells, flat, chunkVars, tableVars, teklifVars, convertVars, prepVars, appVars>>

\* _flatten_with_currency(cells), the row taken as a row without header;
\* _parse_simple_trs hands over rows of three or more non-empty cells
FlattenWithCurrency ==
    /\ rpc = "mapped"
    /\ Len(cells) >= 3
    /\ flat' = [parts |-> FlattenLoop(cells, 1),
                line |-> flatten_with_currency(cells)]
    /\ rpc' = "flattened"
    /\ UNCHANGED <<cells, col_to_pcn, chunkVars, tableVars, teklifVars, convertVars,
                   prepVars, appVars>>

NextRow == BuildPcnMap \/ FlattenWithCurrency

SpecRow == InitRow /\ [][NextRow]_vars

(***************************************************************************)
(* HTMLStructuredConverter: the teklif layout (nested <tbody id>)          *)
(* The parsed document is the sequence of its elements in document order.  *)
(* An element is [tag, parent, id, text]: parent is the index of the       *)
(* parent element, 0 for the BeautifulSoup object; id is the id attribute, *)
(* "" when absent; text is the stripped string the element holds itself,   *)
(* "" when it holds none.  Elements are compared by index: on the chain of *)
(* parents of an element at most one element equals a given tbody.         *)
(***************************************************************************)
\* the keys of TEKLIF_SECTION_NAMES; the display name of "Limits" is written
\* without the dotted capital I of the source
TEKLIF_SECTION_NAMES ==
    [k \in {"Limits"} |-> "LIMIT BILGILERI"]

\* element.parents, the nearest first, the BeautifulSoup object (0) last
RECURSIVE Parents(_, _)
Parents(doc, i) ==
    IF i = 0 THEN <<>> ELSE << doc[i].parent >> \o Parents(doc, doc[i].parent)

IsInside(doc, i, n) ==
    \E k \in 1..Len(Parents(doc, i)) : Parents(doc, i)[k] = n

\* n.find_all(tags): the elements inside n that have one of the tags
FindAll(doc, n, tags) ==
    SelectSeq([i \in 1..Len(doc) |-> i],
              LAMBDA i : doc[i].tag \in tags /\ IsInside(doc, i, n))

\* n.find_all(tags, recursive=False)
FindChildren(doc, n, tags) ==
    SelectSeq([i \in 1..Len(doc) |-> i],
              LAMBDA i : doc[i].tag \in tags /\ doc[i].parent = n)

\* n.find_parent(tag): the nearest parent with the tag, 0 for None
FindParent(doc, n, tag) ==
    LET ps == SelectSeq(Parents(doc, n),
                        LAMBDA q : q # 0 /\ doc[q].tag = tag)
    IN  IF Len(ps) = 0 THEN 0 ELSE ps[1]

\* n.get_text(strip=True): the strings of n and of the elements inside it
GetText(doc, n) ==
    Concat([i \in 1..Len(doc) |->
               IF i = n \/ IsInside(doc, i, n) THEN doc[i].text ELSE ""])

\* _belongs_to_section: the loop over element.parents
RECURSIVE BelongsLoop(_, _, _)
BelongsLoop(doc, parents, section_tbody) ==
    IF Len(parents) = 0 THEN FALSE
    ELSE LET parent == Head(parents)
         IN  IF parent = section_tbody THEN TRUE
             ELSE IF /\ parent # 0
                     /\ doc[parent].tag = "tbody"
                     /\ doc[parent].id # ""
                     /\ parent # section_tbody
             THEN FALSE
             ELSE BelongsLoop(doc, Tail(parents), section_tbody)

\* _belongs_to_section(element, section_tbody)
belongs_to_section(doc, element, section_tbody) ==
    BelongsLoop(doc, Parents(doc, element), section_tbody)

\* _find_inner_tables(section_tbody)
find_inner_tables(doc, section_tbody) ==
    SelectSeq(FindAll(doc, section_tbody, {"table"}),
              LAMBDA t :
                 /\ belongs_to_section(doc, t, section_tbody)
                 /\ \/ FindParent(doc, t, "table") = 0
                    \/ ~belongs_to_section(doc, FindParent(doc, t, "table"),
                                           section_tbody))

\* what _parse_trs_smart reads of a <tr>; no cell of the documents is bold
TrOf(doc, tr) ==
    LET tds == FindChildren(doc, tr, {"td", "th"})
    IN  [cells |-> [k \in 1..Len(tds) |-> GetText(doc, tds[k])],
         text |-> GetText(doc, tr),
         bold |-> FALSE]

TrsOf(doc, trs) == [k \in 1..Len(trs) |-> TrOf(doc, trs[k])]

\* _parse_teklif: the text of the rows trs when the first of them has two or
\* more cells, else ""
DataTableText(doc, trs) ==
    IF Len(trs) > 0 /\ Len(FindChildren(doc, trs[1], {"td", "th"})) >= 2
    THEN parse_trs_smart(TrsOf(doc, trs), "") ELSE ""

\* "if table_text: section_lines.append(table_text)"
NonEmptyText(table_text) ==
    IF table_text # "" THEN << table_text >> ELSE <<>>

\* _parse_teklif, step 1: the texts of the inner tables
RECURSIVE InnerTableTexts(_, _)
InnerTableTexts(doc, inner_tables) ==
    IF Len(inner_tables) = 0 THEN <<>>
    ELSE NonEmptyText(
             DataTableText(doc, FindAll(doc, Head(inner_tables), {"tr"})))
         \o InnerTableTexts(doc, Tail(inner_tables))

\* tr.find("table") and the text of its rows, "" when tr holds no table
NestedTableText(doc, nested) ==
    IF Len(nested) = 0 THEN ""
    ELSE DataTableText(doc, FindAll(doc, nested[1], {"tr"}))

\* the first of two results that is not empty
OrElse(first, second) == IF Len(first) > 0 THEN first ELSE second

\* _parse_teklif, step 2: the text of the first nested table of an own row
\* that gives one
RECURSIVE NestedTableTexts(_, _)
NestedTableTexts(doc, own_trs) ==
    IF Len(own_trs) = 0 THEN <<>>
    ELSE OrElse(NonEmptyText(NestedTableText(doc,
                    FindAll(doc, Head(own_trs), {"table"}))),
                NestedTableTexts(doc, Tail(own_trs)))

\* "if own_trs: table_text = self._parse_trs_smart(own_trs)"
OwnRowsText(doc, own_trs) ==
    IF Len(own_trs) = 0 THEN "" ELSE parse_trs_smart(TrsOf(doc, own_trs), "")

\* _parse_teklif, step 3: the text of the rows that belong to the section
OwnRowTexts(doc, tbody) ==
    NonEmptyText(OwnRowsText(doc,
        SelectSeq(FindAll(doc, tbody, {"tr"}),
                  LAMBDA tr : belongs_to_section(doc, tr, tbody))))

\* _parse_teklif: the lines of the divs that belong to the section.  The
\* divs of the documents have no id and their texts start with a letter and
\* hold no amount, so a div text of more than 10 characters is appended as
\* it is.
DivLines(doc, tbody) ==
    LET own_divs == SelectSeq(FindAll(doc, tbody, {"div"}),
                              LAMBDA d : belongs_to_section(doc, d, tbody))
        div_texts == [k \in 1..Len(own_divs) |-> GetText(doc, own_divs[k])]
    IN  SelectSeq(div_texts, LAMBDA div_text : Len(div_text) > 10)

\* self.TEKLIF_SECTION_NAMES.get(section_id, section_id)
DisplayName(section_id) ==
    IF section_id \in DOMAIN TEKLIF_SECTION_NAMES
    THEN TEKLIF_SECTION_NAMES[section_id] ELSE section_id

\* _parse_teklif: steps 2 and 3 run while not tables_parsed; path is the
\* step that gave the table texts, 0 when none did
TableTexts(step1, step2, step3) ==
    IF Len(step1) > 0 THEN [path |-> 1, texts |-> step1]
    ELSE IF Len(step2) > 0 THEN [path |-> 2, texts |-> step2]
    ELSE [path |-> IF Len(step3) > 0 THEN 3 ELSE 0, texts |-> step3]

\* the section of a tbody: its title line, table texts and div lines
SectionOf(tbody, display_name, tables, div_lines) ==
    LET section_lines == << "## " \o display_name >> \o tables.texts
                         \o div_lines
    IN  [tbody |-> tbody, path |-> tables.path, lines |-> section_lines,
         text |-> Join("\n", section_lines)]

\* _parse_teklif: the body of the loop for one tbody
parse_teklif_section(doc, tbody) ==
    SectionOf(tbody, DisplayName(doc[tbody].id),
        TableTexts(
            InnerTableTexts(doc, find_inner_tables(doc, tbody)),
            NestedTableTexts(doc,
                SelectSeq(FindChildren(doc, tbody, {"tr"}),
                          LAMBDA tr : belongs_to_section(doc, tr, tbody))),
            OwnRowTexts(doc, tbody)),
        DivLines(doc, tbody))

\* mutant: a section is appended even when it holds nothing but its title
AppendSection_KeepTitleOnly(secs, section) ==
    Append(secs, [tbody |-> section.tbody, path |-> section.path,
                  text |-> section.text])

\* "if len(section_lines) > 1: sections.append(...)"
AppendSection(secs, section) ==
    IF Len(section.lines) > 1
    THEN Append(secs, [tbody |-> section.tbody, path |-> section.path,
                       text |-> section.text])
    ELSE secs

(***************************************************************************)
(* Inputs and operations of the teklif parser                              *)
(***************************************************************************)
MaxNodes == 10
MaxTrs == 2
MaxTds == 2

\* the tags an element may have under a parent, "soup" for the document
ChildTags(tag) ==
    CASE tag = "soup" -> {"table"}
      [] tag = "table" -> {"tbody"}
      [] tag = "tbody" -> {"tr"}
      [] tag = "tr" -> {"td"}
      [] tag = "td" -> {"table", "div"}
      [] tag = "div" -> {"table"}

MaxChildren(tag) ==
    CASE tag = "tbody" -> MaxTrs
      [] tag = "tr" -> MaxTds
      [] OTHER -> 1

\* the tbody of the outer table is the section "Limits"; a tbody further in
\* has no id or the id "Nested"
IdsOf(doc, tag) ==
    IF tag # "tbody" THEN {""}
    ELSE IF Len(doc) = 1 THEN {"Limits"} ELSE {"", "Nested"}

TagOf(doc, q) == IF q = 0 THEN "soup" ELSE doc[q].tag

\* the documents of one element more: the new element is the next one in
\* document order, so its parent is the last element or one of its parents
Extensions(doc) ==
    LET open == {Len(doc)} \cup {Parents(doc, Len(doc))[k] :
                                   k \in 1..Len(Parents(doc, Len(doc)))}
        free == {q \in open :
                    Cardinality({i \in 1..Len(doc) : doc[i].parent = q})
                        < MaxChildren(TagOf(doc, q))}
    IN  UNION { UNION { { Append(doc, [tag |-> t, parent |-> q, id |-> d,
                                       text |-> ""]) :
                          d \in IdsOf(doc, t) } :
                        t \in ChildTags(TagOf(doc, q)) } :
                q \in free }

RECURSIVE Shapes(_)
Shapes(n) ==
    IF n = 1
    THEN {<< [tag |-> "table", parent |-> 0, id |-> "", text |-> ""] >>}
    ELSE UNION {Extensions(doc) : doc \in Shapes(n - 1)}

\* a td or div without child elements holds a string that names it
WithTexts(doc) ==
    [i \in 1..Len(doc) |->
        IF /\ doc[i].tag \in {"td", "div"}
           /\ \A j \in 1..Len(doc) : doc[j].parent # i
        THEN [doc[i] EXCEPT !.text = "element " \o ToString(i) \o " content"]
        ELSE doc[i]]

\* the documents: an outer table whose tbody has an id (the teklif layout)
Documents ==
    {WithTexts(doc) : doc \in UNION {Shapes(n) : n \in 2..MaxNodes}}

InitTeklif ==
    /\ soup \in Documents
    /\ kpc = "start"
    /\ tbodies = <<>>
    /\ teklif = <<>>
    /\ ChunkIdle
    /\ RowIdle
    /\ TableIdle
    /\ ConvertIdle
    /\ PrepIdle
    /\ AppIdle

\* _parse_teklif: sections = [], soup.find_all("tbody", id=True)
ParseTeklif ==
    /\ kpc = "start"
    /\ tbodies' = SelectSeq(FindAll(soup, 0, {"tbody"}),
                            LAMBDA b : soup[b].id # "")
    /\ teklif' = <<>>
    /\ kpc' = "loop"
    /\ UNCHANGED <<soup, chunkVars, rowVars, tableVars, convertVars, prepVars, appVars>>

\* _parse_teklif: one turn of the loop; a section of more than its title
\* line is appended
TeklifSection ==
    /\ kpc = "loop"
    /\ Len(tbodies) > 0
    /\ teklif' = AppendSection(teklif,
                   parse_teklif_section(soup, Head(tbodies)))
    /\ tbodies' = Tail(tbodies)
    /\ UNCHANGED <<soup, kpc, chunkVars, rowVars, tableVars, convertVars, prepVars, appVars>>

\* _parse_teklif: return sections
TeklifReturn ==
    /\ kpc = "loop"
    /\ Len(tbodies) = 0
    /\ kpc' = "done"
    /\ UNCHANGED <<soup, tbodies, teklif, chunkVars, rowVars, tableVars, convertVars,
                   prepVars, appVars>>

NextTeklif == ParseTeklif \/ TeklifSection \/ TeklifReturn

SpecTeklif == InitTeklif /\ [][NextTeklif]_vars

(***************************************************************************)
(* HTMLStructuredConverter.convert: clean, detect the layout, parse, join  *)
(* The elements of these documents have a fifth field, class: the list of  *)
(* the values of the class attribute, <<>> when the attribute is absent.   *)
(* An id attribute, when present, is not empty.                            *)
(***************************************************************************)
CleanedTags == {"script", "style", "meta", "link"}

\* the elements tag.decompose() takes out: those of soup([...]) and the
\* elements inside them
Decomposed(doc) ==
    {i \in 1..Len(doc) :
        \/ doc[i].tag \in CleanedTags
        \/ \E k \in 1..Len(Parents(doc, i)) :
              /\ Parents(doc, i)[k] # 0
              /\ doc[Parents(doc, i)[k]].tag \in CleanedTags}

\* _clean_soup: the document without the decomposed elements
clean_soup(doc) ==
    LET gone == Decomposed(doc)
        kept == SelectSeq([i \in 1..Len(doc) |-> i], LAMBDA i : i \notin gone)
        at(q) == Cardinality({j \in 1..q : j \notin gone})
    IN  [k \in 1..Len(kept) |->
            [doc[kept[k]] EXCEPT !.parent = at(doc[kept[k]].parent)]]

\* find(..., class_=f): bs4 hands f each value of the class attribute, then
\* the values joined by a space, and None when the attribute is absent
ClassArguments(values) ==
    IF Len(values) = 0 THEN {}
    ELSE {values[k] : k \in 1..Len(values)} \cup {Join(" ", values)}

\* lambda c: c and "dl-bold" in c
IsDlBold(c) == c # "" /\ IsSubstr("dl-bold", c)

\* lambda c: c and "dl-bold" in c and "dl-center" in c and "dl-bg1" not in c
IsMainTitle(c) ==
    c # "" /\ IsSubstr("dl-bold", c) /\ IsSubstr("dl-center", c)
           /\ ~IsSubstr("dl-bg1", c)

\* lambda c: c and "dl-bold" in c and "dl-bg1" in c
IsSectionTitle(c) ==
    c # "" /\ IsSubstr("dl-bold", c) /\ IsSubstr("dl-bg1", c)

\* soup.find_all("tbody", id=True)
TbodiesWithId(doc) ==
    SelectSeq(FindAll(doc, 0, {"tbody"}), LAMBDA b : doc[b].id # "")

\* soup.find_all("div", class_=lambda c: c and "dl-bold" in c)
DlBoldDivs(doc) ==
    SelectSeq(FindAll(doc, 0, {"div"}),
              LAMBDA d : \E c \in ClassArguments(doc[d].class) : IsDlBold(c))

\* soup.find_all("div", class_=...) with the main title test
MainTitleDivs(doc) ==
    SelectSeq(FindAll(doc, 0, {"div"}),
              LAMBDA d : \E c \in ClassArguments(doc[d].class) : IsMainTitle(c))

\* soup.find_all("div", class_=...) with the section title test
SectionTitleDivs(doc) ==
    SelectSeq(FindAll(doc, 0, {"div"}),
              LAMBDA d : \E c \in ClassArguments(doc[d].class) :
                            IsSectionTitle(c))

\* mutant: the dl-bold test comes before the tbody test
detect_format_DivFirst(doc) ==
    IF Len(DlBoldDivs(doc)) > 0 THEN "performans"
    ELSE IF Len(TbodiesWithId(doc)) > 0 THEN "teklif"
    ELSE "mali_veri"

\* _detect_format(soup)
detect_format(doc) ==
    IF Len(TbodiesWithId(doc)) > 0 THEN "teklif"
    ELSE IF Len(DlBoldDivs(doc)) > 0 THEN "performans"
    ELSE "mali_veri"

\* _parse_teklif(soup): the loop over the tbodies with an id
RECURSIVE TeklifLoop(_, _, _)
TeklifLoop(doc, todo, secs) ==
    IF Len(todo) = 0 THEN secs
    ELSE TeklifLoop(doc, Tail(todo),
             AppendSection(secs, parse_teklif_section(doc, Head(todo))))

SectionTexts(secs) == [k \in 1..Len(secs) |-> secs[k].text]

parse_teklif(doc) == SectionTexts(TeklifLoop(doc, TbodiesWithId(doc), <<>>))

\* _parse_table_smart(table, section_title)
parse_table_smart(doc, tbl, section_title) ==
    LET rows == FindAll(doc, tbl, {"tr"})
    IN  IF Len(rows) = 0 THEN ""
        ELSE parse_trs_smart(TrsOf(doc, rows), section_title)

\* the first element of a set of indexes, 0 (None) when it is empty
FirstOf(found) == IF found = {} THEN 0 ELSE Min(found)

\* div.find_next_sibling("table")
FindNextSibling(doc, n, tag) ==
    FirstOf({i \in (n + 1)..Len(doc) :
                doc[i].tag = tag /\ doc[i].parent = doc[n].parent})

\* div.find_next("table")
FindNext(doc, n, tag) ==
    FirstOf({i \in (n + 1)..Len(doc) : doc[i].tag = tag})

\* "table = div.find_next_sibling(...); if not table: table = div.find_next(...)"
TableAfter(sibling, next) == IF sibling # 0 THEN sibling ELSE next

\* _parse_performans: the section of a title div with the table after it
PerformansSection(doc, title, tbl) ==
    IF title = "" THEN <<>>
    ELSE IF tbl # 0
    THEN NonEmptyText(parse_table_smart(doc, tbl, title))
    ELSE << "## " \o title >>

\* _parse_performans: the loop over section_divs
RECURSIVE PerformansLoop(_, _)
PerformansLoop(doc, section_divs) ==
    IF Len(section_divs) = 0 THEN <<>>
    ELSE PerformansSection(doc, GetText(doc, Head(section_divs)),
             TableAfter(FindNextSibling(doc, Head(section_divs), "table"),
                        FindNext(doc, Head(section_divs), "table")))
         \o PerformansLoop(doc, Tail(section_divs))

\* _parse_performans: the main title line
MainTitleLines(doc, main_titles) ==
    IF Len(main_titles) = 0 THEN <<>>
    ELSE << "# " \o GetText(doc, main_titles[1]) >>

\* _parse_performans(soup)
parse_performans(doc) ==
    MainTitleLines(doc, MainTitleDivs(doc))
    \o PerformansLoop(doc, SectionTitleDivs(doc))

\* _parse_mali_veri(soup): the loop over the top-level tables
RECURSIVE MaliTables(_, _)
MaliTables(doc, top_tables) ==
    IF Len(top_tables) = 0 THEN <<>>
    ELSE parse_mali_veri(TrsOf(doc, FindAll(doc, Head(top_tables), {"tr"})))
         \o MaliTables(doc, Tail(top_tables))

\* _parse_mali_veri(soup)
parse_mali_veri_soup(doc) ==
    MaliTables(doc, SelectSeq(FindAll(doc, 0, {"table"}),
                              LAMBDA t : FindParent(doc, t, "table") = 0))

\* convert: the parser of the detected layout
ParseByFormat(doc, format) ==
    IF format = "teklif" THEN parse_teklif(doc)
    ELSE IF format = "performans" THEN parse_performans(doc)
    ELSE parse_mali_veri_soup(doc)

\* convert: "sections = [s for s in sections if s and s.strip()]", then
\* "\n\n---\n\n".join(sections)
JoinSections(secs) ==
    Join("\n\n---\n\n", SelectSeq(secs, LAMBDA x : x # "" /\ Strip(x) # ""))

\* convert(html_content), html_content parsed to doc
convert(doc) ==
    JoinSections(ParseByFormat(clean_soup(doc), detect_format(clean_soup(doc))))

(***************************************************************************)
(* Inputs and operations of convert                                        *)
(***************************************************************************)
MaxPageNodes == 6

\* the tags an element may have under a parent, "soup" for the document
PageChildTags(tag) ==
    CASE tag = "soup" -> {"table", "div", "p", "script"}
      [] tag = "table" -> {"tbody", "tr"}
      [] tag = "tbody" -> {"tr"}
      [] tag = "tr" -> {"td"}
      [] OTHER -> {}

PageMaxChildren(tag) ==
    CASE tag = "soup" -> 2
      [] tag = "table" -> MaxTrs
      [] tag = "tbody" -> 1
      [] tag = "tr" -> MaxTds
      [] OTHER -> 0

\* the attributes and the string of a new element; "*" stands for the
\* string that names the element, "" for no string
PageAttrs(tag) ==
    CASE tag = "tbody" ->
           {[id |-> d, class |-> <<>>, text |-> ""] : d \in {"", "Limits"}}
      [] tag = "div" ->
           {[id |-> "", class |-> c, text |-> "*"] :
               c \in {<<>>, <<"dl-bold", "dl-bg1">>, <<"dl-bold", "dl-center">>}}
           \cup {[id |-> "", class |-> <<"dl-bold", "dl-bg1">>, text |-> ""]}
      [] tag = "td" ->
           {[id |-> "", class |-> <<>>, text |-> t] : t \in {"", "*"}}
      [] tag \in {"p", "script"} ->
           {[id |-> "", class |-> <<>>, text |-> "*"]}
      [] OTHER -> {[id |-> "", class |-> <<>>, text |-> ""]}

\* the documents of one element more, the new element last in document order
PageExtensions(doc) ==
    LET open == IF Len(doc) = 0 THEN {0}
                ELSE {Len(doc)} \cup {Parents(doc, Len(doc))[k] :
                                        k \in 1..Len(Parents(doc, Len(doc)))}
        free == {q \in open :
                    Cardinality({i \in 1..Len(doc) : doc[i].parent = q})
                        < PageMaxChildren(TagOf(doc, q))}
    IN  UNION { UNION { { Append(doc, [tag |-> t, parent |-> q, id |-> a.id,
                                       class |-> a.class, text |-> a.text]) :
                          a \in PageAttrs(t) } :
                        t \in PageChildTags(TagOf(doc, q)) } :
                q \in free }

RECURSIVE PageShapes(_)
PageShapes(n) ==
    IF n = 0 THEN {<<>>}
    ELSE UNION {PageExtensions(doc) : doc \in PageShapes(n - 1)}

WithPageTexts(doc) ==
    [i \in 1..Len(doc) |->
        IF doc[i].text = "*"
        THEN [doc[i] EXCEPT !.text = "element " \o ToString(i) \o " content"]
        ELSE doc[i]]

\* the documents: top-level tables, divs, paragraphs and scripts
Pages ==
    {WithPageTexts(doc) : doc \in UNION {PageShapes(n) : n \in 0..MaxPageNodes}}

InitConvert ==
    /\ page \in Pages
    /\ vpc = "start"
    /\ format_type = ""
    /\ parsed = <<>>
    /\ result = ""
    /\ ChunkIdle
    /\ RowIdle
    /\ TableIdle
    /\ TeklifIdle
    /\ PrepIdle
    /\ AppIdle

\* convert: self._clean_soup(soup)
CleanSoup ==
    /\ vpc = "start"
    /\ page' = clean_soup(page)
    /\ vpc' = "cleaned"
    /\ UNCHANGED <<format_type, parsed, result,
                   chunkVars, rowVars, tableVars, teklifVars, prepVars, appVars>>

\* convert: format_type = self._detect_format(soup)
DetectFormat ==
    /\ vpc = "cleaned"
    /\ format_type' = detect_format(page)
    /\ vpc' = "detected"
    /\ UNCHANGED <<page, parsed, result,
                   chunkVars, rowVars, tableVars, teklifVars, prepVars, appVars>>

\* convert: sections = the parser of the layout
ParseSections ==
    /\ vpc = "detected"
    /\ parsed' = ParseByFormat(page, format_type)
    /\ vpc' = "parsed"
    /\ UNCHANGED <<page, format_type, result,
                   chunkVars, rowVars, tableVars, teklifVars, prepVars, appVars>>

\* convert: filter the empty sections, join, return
ConvertReturn ==
    /\ vpc = "parsed"
    /\ result' = JoinSections(parsed)
    /\ vpc' = "done"
    /\ UNCHANGED <<page, format_type, parsed,
                   chunkVars, rowVars, tableVars, teklifVars, prepVars, appVars>>

NextConvert == CleanSoup \/ DetectFormat \/ ParseSections \/ ConvertReturn

SpecConvert == InitConvert /\ [][NextConvert]_vars

(***************************************************************************)
(* The two entry points of the core, convert and chunk, side by side       *)
(***************************************************************************)
InitCore == InitConvert \/ InitChunk

NextCore == NextConvert \/ NextChunk

SpecCore == InitCore /\ [][NextCore]_vars

(***************************************************************************)
(* DocumentPreprocessor (document_preprocessing.py)                        *)
(* A plain text is the sequence of its characters, each a one-character    *)
(* string; "^A" stands for the control character U+0001, which a TLA+      *)
(* string cannot hold.                                                     *)
(***************************************************************************)
ToChars(s) == [i \in 1..Len(s) |-> Ch(s, i)]

\* the characters of a character class
CharsOf(s) == {Ch(s, i) : i \in 1..Len(s)}

\* [^\S\n]: the whitespace characters other than the newline
HSpace == {" ", "\t", "\r", "\f"}

\* \s, and the characters str.strip() removes
PyWhitespace == HSpace \cup {"\n"}

\* the characters with ord(char) < 32 that are not in "\n\t"
ControlChars == {"^A", "\r", "\f"}

\* [.?!]
TerminalPunct == {".", "?", "!"}

\* the length of the run of characters of the class that starts at cs[i]
RunLenAt(cs, i, class) ==
    IF i > Len(cs) THEN 0
    ELSE Min({k \in i..Len(cs) : cs[k] \notin class} \cup {Len(cs) + 1}) - i

\* the positions of cs, in order
Positions(cs) == [i \in 1..Len(cs) |-> i]

\* re.sub(r'[^\S\n]+', ' ', text)
\* every run is replaced by one space: its first character becomes the
\* space, the others go
CollapseSpaces(cs) ==
    LET kept == SelectSeq(Positions(cs),
                    LAMBDA i : cs[i] \notin HSpace \/ i = 1 \/ cs[i - 1] \notin HSpace)
    IN  [k \in 1..Len(kept) |-> IF cs[kept[k]] \in HSpace THEN " " ELSE cs[kept[k]]]

\* re.sub(r'\n{3,}', '\n\n', text)
\* of every run of newlines the first two stay
CapNewlines(cs) ==
    LET kept == SelectSeq(Positions(cs),
                    LAMBDA i : ~(/\ i >= 3
                                 /\ cs[i] = "\n"
                                 /\ cs[i - 1] = "\n"
                                 /\ cs[i - 2] = "\n"))
    IN  [k \in 1..Len(kept) |-> cs[kept[k]]]

\* re.sub(r'^[^\S\n]+|[^\S\n]+$', '', text, flags=re.MULTILINE): a run of
\* whitespace is removed when it starts a line or ends one
\* the first position of the run of HSpace that holds position i
RunStart(cs, i) == Max({j \in 1..i : j = 1 \/ cs[j - 1] \notin HSpace})

\* the run of HSpace that holds position i starts a line (the text starts a
\* line when line_start) or ends one
AtLineEdge(cs, i, line_start) ==
    LET first == RunStart(cs, i)
        after == i + RunLenAt(cs, i, HSpace)
    IN  \/ (IF first = 1 THEN line_start ELSE cs[first - 1] = "\n")
        \/ after > Len(cs)
        \/ cs[after] = "\n"

TrimLineEdges(cs, line_start) ==
    LET kept == SelectSeq(Positions(cs),
                    LAMBDA i : cs[i] \notin HSpace \/ ~AtLineEdge(cs, i, line_start))
    IN  [k \in 1..Len(kept) |-> cs[kept[k]]]

\* re.sub(r'([.?!]){2,}', r'\1', text): the group holds the last character
\* of every run the last character stays
CollapsePunct(cs) ==
    LET kept == SelectSeq(Positions(cs),
                    LAMBDA i : \/ cs[i] \notin TerminalPunct
                               \/ i = Len(cs)
                               \/ cs[i + 1] \notin TerminalPunct)
    IN  [k \in 1..Len(kept) |-> cs[kept[k]]]

\* ''.join(char for char in text if ord(char) >= 32 or char in '\n\t')
RemoveControl(cs) == SelectSeq(cs, LAMBDA c : c \notin ControlChars)

\* str.strip()
StripChars(cs) ==
    LET solid == {i \in 1..Len(cs) : cs[i] \notin PyWhitespace}
    IN  IF solid = {} THEN <<>> ELSE SubSeq(cs, Min(solid), Max(solid))

\* clean_text(text)
clean_text(cs) ==
    StripChars(RemoveControl(CollapsePunct(
        TrimLineEdges(CapNewlines(CollapseSpaces(cs)), TRUE))))

\* [A-Z...]: the first character of a title line; the capitals G-breve and
\* S-cedilla of the pattern cannot be written in a TLA+ string
HeadingStart == CharsOf("ABCDEFGHIJKLMNOPQRSTUVWXYZÇÖÜÂÎÛ")

\* [A-Za-z0-9\s\.,;:!?\-...]: the further characters of a title; the
\* capitals G-breve, dotted I and S-cedilla of the pattern cannot be written
TitleChars ==
    CharsOf("ABCDEFGHIJKLMNOPQRSTUVWXYZabcdefghijklmnopqrstuvwxyz")
        \cup CharsOf("0123456789.,;:!?-ÇÖÜâîû")
        \cup PyWhitespace

\* [=\-]
Underline == {"=", "-"}

\* the ends j of "\s*$" after the underline that ends at u: the whitespace
\* taken stops at the end of the text or before a newline
UnderlineEnds(cs, u) ==
    {j \in u..(u + RunLenAt(cs, u + 1, PyWhitespace)) :
        j = Len(cs) \/ cs[j + 1] = "\n"}

\* the ends e of the title of a match of the heading pattern that starts at i
TitleEnds(cs, i) ==
    {e \in (i + 1)..(i + RunLenAt(cs, i + 1, TitleChars)) :
        /\ e + 2 <= Len(cs)
        /\ cs[e + 1] = "\n"
        /\ cs[e + 2] \in Underline
        /\ UnderlineEnds(cs, e + 1 + RunLenAt(cs, e + 2, Underline)) # {}}

\* ^ with re.MULTILINE
IsLineStart(cs, i) == i = 1 \/ cs[i - 1] = "\n"

\* re.sub(r'^([A-Z...][A-Za-z0-9\s...]+)\n[=\-]+\s*$', r'# \1', text,
\* flags=re.MULTILINE), from position i on; the title and the whitespace
\* after the underline are taken greedily
HeadingAt(cs, p) ==
    /\ IsLineStart(cs, p)
    /\ cs[p] \in HeadingStart
    /\ TitleEnds(cs, p) # {}

\* the start of the first match from position i on, Len(cs) + 1 when none
NextHeading(cs, i) == Min({p \in i..Len(cs) : HeadingAt(cs, p)} \cup {Len(cs) + 1})

\* the characters before the first match are copied, the match is replaced
\* and the search goes on after it
RECURSIVE HeadingSub(_, _)
HeadingSub(cs, i) ==
    IF i > Len(cs) THEN <<>>
    ELSE LET p == NextHeading(cs, i)
         IN  IF p > Len(cs) THEN SubSeq(cs, i, Len(cs))
             ELSE LET e == Max(TitleEnds(cs, p))
                  IN  SubSeq(cs, i, p - 1) \o <<"#", " ">> \o SubSeq(cs, p, e)
                      \o HeadingSub(cs,
                            Max(UnderlineEnds(cs,
                                e + 1 + RunLenAt(cs, e + 2, Underline))) + 1)

\* [*...]: the bullet glyphs; the round bullet and the check mark of the
\* pattern cannot be written in a TLA+ string
Bullets == {"*"}

\* re.sub(r'^\s*[...*]\s+', '- ', text, flags=re.MULTILINE), from position i on
\* the position of the bullet of a match that starts at p
BulletAfter(cs, p) == p + RunLenAt(cs, p, PyWhitespace)

ListItemAt(cs, p) ==
    /\ IsLineStart(cs, p)
    /\ BulletAfter(cs, p) <= Len(cs)
    /\ cs[BulletAfter(cs, p)] \in Bullets
    /\ RunLenAt(cs, BulletAfter(cs, p) + 1, PyWhitespace) >= 1

\* the start of the first match from position i on, Len(cs) + 1 when none
NextListItem(cs, i) == Min({p \in i..Len(cs) : ListItemAt(cs, p)} \cup {Len(cs) + 1})

\* the characters before the first match are copied, the match is replaced
\* and the search goes on after it
RECURSIVE ListSub(_, _)
ListSub(cs, i) ==
    IF i > Len(cs) THEN <<>>
    ELSE LET p == NextListItem(cs, i)
             b == BulletAfter(cs, p)
         IN  IF p > Len(cs) THEN SubSeq(cs, i, Len(cs))
             ELSE SubSeq(cs, i, p - 1) \o <<"-", " ">>
                  \o ListSub(cs, b + 1 + RunLenAt(cs, b + 1, PyWhitespace))

\* soup(["script", "style"]) decomposed: the document without these elements
\* and the elements inside them
WithoutTags(doc, tags) ==
    LET gone == {i \in 1..Len(doc) :
                    \/ doc[i].tag \in tags
                    \/ \E k \in 1..Len(Parents(doc, i)) :
                          /\ Parents(doc, i)[k] # 0
                          /\ doc[Parents(doc, i)[k]].tag \in tags}
        kept == SelectSeq([i \in 1..Len(doc) |-> i], LAMBDA i : i \notin gone)
        at(q) == Cardinality({j \in 1..q : j \notin gone})
    IN  [k \in 1..Len(kept) |->
            [doc[kept[k]] EXCEPT !.parent = at(doc[kept[k]].parent)]]

RelevantTags == {"h1", "h2", "h3", "h4", "h5", "h6", "p", "li", "table"}

\* int(tag.name[1]) for the tags h1 to h6
HeadingLevel(tag) == FindFrom("123456", Ch(tag, 2), 1)

\* '#' * level
RECURSIVE Hashes(_)
Hashes(n) == IF n = 0 THEN "" ELSE "#" \o Hashes(n - 1)

\* " | ".join([col.get_text(strip=True) for col in cols]) of one row
RowText(doc, row) ==
    Join(" | ", [k \in 1..Len(FindAll(doc, row, {"td", "th"})) |->
                    GetText(doc, FindAll(doc, row, {"td", "th"})[k])])

\* clean_html: what one relevant tag appends to text_parts
TextPartsOf(doc, i) ==
    IF Ch(doc[i].tag, 1) = "h"
    THEN << Hashes(HeadingLevel(doc[i].tag)) \o " " \o GetText(doc, i) >>
    ELSE IF doc[i].tag = "p" THEN << GetText(doc, i) >>
    ELSE IF doc[i].tag = "li" THEN << "- " \o GetText(doc, i) >>
    ELSE [k \in 1..Len(FindAll(doc, i, {"tr"})) |->
             RowText(doc, FindAll(doc, i, {"tr"})[k])]

\* clean_html: the loop over relevant_tags
RECURSIVE TextParts(_, _)
TextParts(doc, relevant_tags) ==
    IF Len(relevant_tags) = 0 THEN <<>>
    ELSE TextPartsOf(doc, Head(relevant_tags))
             \o TextParts(doc, Tail(relevant_tags))

\* BeautifulSoup(html_content, 'html.parser'): a text without markup has no
\* element
ParseHtml(c) == IF c.markup THEN c.doc ELSE <<>>

\* the lines of clean_html for the element tree doc
CleanedLines(doc) == Join("\n\n", TextParts(doc, FindAll(doc, 0, RelevantTags)))

\* clean_html(html_content)
clean_html(c) ==
    PlainText(ToChars(CleanedLines(WithoutTags(ParseHtml(c), {"script", "style"}))))

\* to_markdown(text, source_format)
to_markdown(c, source_format) ==
    IF source_format = "md" THEN c
    ELSE IF source_format = "html"
         THEN PlainText(ListSub(HeadingSub(clean_html(c).chars, 1), 1))
         ELSE PlainText(ListSub(HeadingSub(c.chars, 1), 1))

\* str.lower()
RECURSIVE Lower(_)
Lower(s) ==
    IF Len(s) = 0 THEN ""
    ELSE LET k == FindFrom(UpperCase, Ch(s, 1), 1)
         IN  (IF k = 0 THEN Ch(s, 1) ELSE Ch(LowerCase, k)) \o Lower(Tail(s))

\* preprocess: "if file_type.lower() == 'html': content = clean_html(content)"
AfterHtml(c, ftype) == IF Lower(ftype) = "html" THEN clean_html(c) ELSE c

\* preprocess: "if to_markdown: content = to_markdown(content, file_type)"
AfterMarkdown(c, ftype, markdownify) ==
    IF markdownify THEN to_markdown(c, ftype) ELSE c

\* preprocess(content, file_type, clean, to_markdown): the characters returned
preprocess(c, ftype, do_clean, markdownify) ==
    IF do_clean
    THEN clean_text(AfterMarkdown(AfterHtml(c, ftype), ftype, markdownify).chars)
    ELSE AfterMarkdown(AfterHtml(c, ftype), ftype, markdownify).chars

\* the number of calls of clean_html in preprocess(content, file_type, ...)
CleanHtmlCalls(ftype, markdownify) ==
    (IF Lower(ftype) = "html" THEN 1 ELSE 0)
        + (IF markdownify /\ ftype = "html" THEN 1 ELSE 0)

(***************************************************************************)
(* Inputs and operations of the preprocessor                               *)
(***************************************************************************)
MaxTextLen == 5
MaxHtmlBlocks == 2

\* characters that exercise clean_text, and characters that exercise the
\* heading and list patterns of to_markdown
CleanAlphabet == {"a", " ", "\n", ".", "^A"}
MarkdownAlphabet == {"T", " ", "\n", "=", "*"}

PlainTexts ==
    SeqsUpTo(CleanAlphabet, MaxTextLen) \cup SeqsUpTo(MarkdownAlphabet, MaxTextLen)

El(tag, parent, str) == [tag |-> tag, parent |-> parent, id |-> "", text |-> str]

\* the top-level blocks of a document; parent is relative to the block
HtmlBlocks ==
    { << El("h1", 0, "Ozet") >>,
      << El("h2", 0, "Detay") >>,
      << El("p", 0, "ilk paragraf") >>,
      << El("li", 0, "bir madde") >>,
      << El("div", 0, "serbest metin") >>,
      << El("script", 0, "var x = 1") >>,
      << El("table", 0, ""), El("tr", 1, ""), El("td", 2, "Tutar"),
         El("td", 2, "100") >>,
      << El("table", 0, ""), El("tr", 1, ""), El("td", 2, ""),
         El("p", 3, "hucre") >> }

\* the document made of the blocks bs, one after the other
RECURSIVE Assemble(_)
Assemble(bs) ==
    IF Len(bs) = 0 THEN <<>>
    ELSE LET front == Assemble(SubSeq(bs, 1, Len(bs) - 1))
             block == bs[Len(bs)]
         IN  front \o [k \in 1..Len(block) |->
                          [block[k] EXCEPT !.parent =
                              IF block[k].parent = 0 THEN 0
                              ELSE block[k].parent + Len(front)]]

HtmlDocs == {Assemble(bs) : bs \in SeqsUpTo(HtmlBlocks, MaxHtmlBlocks)}

InitPreprocess ==
    /\ \/ /\ raw_content \in {Markup(doc) : doc \in HtmlDocs}
          /\ file_type \in {"html", "HTML"}
       \/ /\ raw_content \in {PlainText(cs) : cs \in PlainTexts}
          /\ file_type \in {"txt", "md"}
    /\ flags = [clean |-> FALSE, to_markdown |-> FALSE]
    /\ ppc = "start"
    /\ cleanings = 0
    /\ processed = <<>>
    /\ ChunkIdle
    /\ RowIdle
    /\ TableIdle
    /\ TeklifIdle
    /\ ConvertIdle
    /\ AppIdle

\* DocumentPreprocessor.preprocess(content, file_type, clean, to_markdown)
Preprocess ==
    /\ ppc = "start"
    /\ \E do_clean, markdownify \in BOOLEAN :
          /\ flags' = [clean |-> do_clean, to_markdown |-> markdownify]
          /\ processed' = preprocess(raw_content, file_type, do_clean, markdownify)
          /\ cleanings' = CleanHtmlCalls(file_type, markdownify)
    /\ ppc' = "done"
    /\ UNCHANGED <<raw_content, file_type,
                   chunkVars, rowVars, tableVars, teklifVars, convertVars, appVars>>

NextPreprocess == Preprocess

SpecPreprocess == InitPreprocess /\ [][NextPreprocess]_vars

\* C5: _build_pcn_map maps each column that is neither column 0 nor a marker
\* column to the smallest marker column index greater than it, and maps no
\* other column; with one marker at m the keys are the value columns in
\* (0, m), with no marker the map is empty.
C5_PcnMap ==
    rpc \in {"mapped", "flattened"} =>
        LET pcns == PcnIndices(cells)
            keys == {i \in 1..(Len(cells) - 1) :
                        i \notin pcns /\ \E m \in pcns : m > i}
        IN  /\ DOMAIN col_to_pcn = keys
            /\ \A i \in keys : col_to_pcn[i] = Min({m \in pcns : m > i})
            /\ 0 \notin DOMAIN col_to_pcn
            /\ DOMAIN col_to_pcn \cap pcns = {}
            /\ \A m \in pcns : pcns = {m} =>
                   DOMAIN col_to_pcn = {i \in 1..(m - 1) : TRUE}
            /\ pcns = {} => col_to_pcn = EmptyMap

\* a header row with a value column on each side of its only marker column
C5_Witness ==
    /\ rpc = "mapped"
    /\ cells = <<"Kalem", "5.000", "p.c.n.", "Kalem">>
    /\ DOMAIN col_to_pcn = {1}
    /\ col_to_pcn[1] = 2

Range(f) == {f[k] : k \in DOMAIN f}

\* C1: every chunk returned by chunk() has len(content) <= chunk_size * 1.2
\* and len(content.strip()) >= 50, sub-chunks of a re-split chunk and chunks
\* of the paragraph fallback included.
C1_ChunksWithinLimits ==
    cpc # "start" =>
        \A c \in Range(final_chunks) :
            /\ ~Oversized(c.content, chunk_size)
            /\ Len(Strip(c.content)) >= MinChunkLen

\* the heading whose title is recorded at level l when heading i is visited:
\* the last heading before i at level l with no shallower heading after it
RecordedAt(secs, i, l) ==
    {j \in 1..(i - 1) :
        /\ secs[j].level = l
        /\ \A k \in (j + 1)..(i - 1) : secs[k].level > l}

RECURSIVE AncestorTitles(_, _, _)
AncestorTitles(secs, i, l) ==
    IF l >= secs[i].level THEN <<>>
    ELSE (IF RecordedAt(secs, i, l) = {} THEN <<>>
          ELSE <<secs[Max(RecordedAt(secs, i, l))].title>>)
         \o AncestorTitles(secs, i, l + 1)

ExpectedHeader(secs, i) ==
    Join(" > ", Append(AncestorTitles(secs, i, 1), secs[i].title))

ScenarioABC == "## A\n" \o X75 \o "\n### B\n" \o X75 \o "\n### C\n" \o X75 \o "\n"

\* C2: the header of the section of a heading at level L is the titles still
\* recorded at the levels < L (a title stays recorded until a heading of the
\* same or a shallower level is visited), in increasing level order, then its
\* own title, joined by " > "; for "## A", "### B", "### C" the headers are
\* "A", "A > B" and "A > C".
C2_CompositeHeader ==
    (cpc = "chunked" /\ Len(find_sections(text)) > 0) =>
        /\ \A c \in Range(sections) :
               c.header = <<ExpectedHeader(find_sections(text), c.position + 1)>>
        /\ text = ScenarioABC =>
               [k \in 1..Len(sections) |-> sections[k].header]
                   = << <<"A">>, <<"A > B">>, <<"A > C">> >>

C2_Witness ==
    /\ cpc = "chunked"
    /\ text = ScenarioABC
    /\ Len(sections) = 3
    /\ sections[2].header = <<"A > B">>
    /\ sections[3].header = <<"A > C">>

\* header h names title as an ancestor of own: title is one of the parts of h
\* before the last, and the last part is own
NamesAncestor(h, title, own) ==
    LET parts == Split(h, " > ")
    IN  /\ parts[Len(parts)] = own
        /\ \E m \in 1..(Len(parts) - 1) : parts[m] = title

\* C3: in the result of chunk() on a text with headings, every chunk that comes
\* from the section of heading i (as it is, or as a sub-chunk of its re-split)
\* names in its header, before its own title, the title of every earlier
\* heading j of a shallower level that has no heading of j's level or
\* shallower between j and i.
C3_HeaderKeepsAncestors ==
    (cpc = "chunked" /\ Len(find_sections(text)) > 0) =>
        LET secs == find_sections(text)
        IN  /\ final_chunks = PostPassAll(sections, 1, chunk_size)
            /\ \A n \in 1..Len(sections) :
                  LET i == sections[n].position + 1
                  IN  \A c \in Range(PostPass(sections[n], chunk_size)) :
                        \A j \in 1..(i - 1) :
                          (/\ secs[j].level < secs[i].level
                           /\ \A k \in (j + 1)..(i - 1) :
                                 secs[k].level > secs[j].level)
                          => /\ c.header # <<>>
                             /\ NamesAncestor(c.header[1], secs[j].title,
                                              secs[i].title)

\* a sub-chunk of a re-split section of a level-3 heading under a level-1 heading
C3_Witness ==
    /\ cpc = "chunked"
    /\ \E k \in 1..Len(final_chunks) :
          /\ final_chunks[k].header = <<"T > A > B">>
          /\ final_chunks[k].level = 3
          /\ final_chunks[k].position = 1
          /\ Oversized(sections[3].content, chunk_size)

\* C4: chunking the content of a returned, under-limit chunk again with the
\* same chunk_size returns exactly one chunk, with identical content.
C4_RechunkIdempotent ==
    (cpc = "rechunked" /\ ~Oversized(final_chunks[picked].content, chunk_size)) =>
        /\ Len(rechunked) = 1
        /\ rechunked[1].content = final_chunks[picked].content

\* ceil(a / b) for positive b
CeilDiv(a, b) == (a + b - 1) \div b

Abs(n) == IF n < 0 THEN 0 - n ELSE n

\* C12: for a text with no heading, longer than chunk_size, whose paragraphs
\* are separated by blank lines, the number of chunks chunk() returns differs
\* from ceil(len(text) / chunk_size) by at most 1, and no returned chunk is
\* longer than chunk_size * 1.2.
C12_ParagraphChunkCount ==
    (/\ cpc # "start"
     /\ Len(find_sections(text)) = 0
     /\ Len(text) > chunk_size
     /\ IsSubstr("\n\n", text)) =>
        /\ Abs(Len(final_chunks) - CeilDiv(Len(text), chunk_size)) <= 1
        /\ \A c \in Range(final_chunks) : ~Oversized(c.content, chunk_size)

\* C13: in the list chunk() returns, the k-th chunk (counting from 0) has
\* position k, so the positions are pairwise distinct and strictly increasing,
\* also when short chunks were discarded and oversized chunks were replaced by
\* their sub-chunks.
C13_PositionsAreIndexes ==
    cpc # "start" =>
        /\ \A k \in 1..Len(final_chunks) : final_chunks[k].position = k - 1
        /\ \A j, k \in 1..Len(final_chunks) :
               j < k => final_chunks[j].position < final_chunks[k].position

\* the paragraphs _chunk_by_paragraphs walks: the pieces between blank lines,
\* the lines when the text has no blank line
SplitParagraphs(s) ==
    IF Len(Split(s, "\n\n")) <= 1 THEN Split(s, "\n") ELSE Split(s, "\n\n")

\* the paragraphs without their surrounding whitespace, the empty ones left out
StrippedNonEmpty(ps) ==
    SelectSeq([k \in 1..Len(ps) |-> Strip(ps[k])], LAMBDA para : para # "")

\* the paragraphs of the chunks cs, chunk after chunk
RECURSIVE ParagraphsOfChunks(_, _)
ParagraphsOfChunks(cs, k) ==
    IF k > Len(cs) THEN <<>>
    ELSE StrippedNonEmpty(Split(cs[k].content, "\n\n"))
             \o ParagraphsOfChunks(cs, k + 1)

\* chunk c of chunk_by_headers is re-split by chunk()
IsResplit(c, size) ==
    Len(Strip(c.content)) >= MinChunkLen /\ Oversized(c.content, size)

\* C14: a chunk longer than chunk_size * 1.2 is not rejected by chunk() but
\* replaced, at its place in the result, by its paragraph sub-chunks; every
\* sub-chunk has the header and the level of the chunk it comes from, and the
\* paragraphs of that chunk are the paragraphs of its sub-chunks, each in
\* exactly one sub-chunk and in the original order.
C14_OversizedResplit ==
    cpc = "chunked" =>
        /\ final_chunks = PostPassAll(sections, 1, chunk_size)
        /\ \A n \in 1..Len(sections) :
              IsResplit(sections[n], chunk_size) =>
                  /\ Len(PostPass(sections[n], chunk_size)) >= 1
                  /\ \A sub \in Range(PostPass(sections[n], chunk_size)) :
                        /\ sub.header = sections[n].header
                        /\ sub.level = sections[n].level
                  /\ ParagraphsOfChunks(PostPass(sections[n], chunk_size), 1)
                        = StrippedNonEmpty(SplitParagraphs(sections[n].content))

\* a section under a parent heading that is re-split into several sub-chunks
C14_Witness ==
    /\ cpc = "chunked"
    /\ \E n \in 1..Len(sections) :
          /\ IsResplit(sections[n], chunk_size)
          /\ sections[n].header = <<"A > B">>
          /\ Len(PostPass(sections[n], chunk_size)) >= 2
          /\ Len(StrippedNonEmpty(SplitParagraphs(sections[n].content))) >= 2

\* C15: _chunk_by_paragraphs splits the text at blank lines (at single
\* newlines when it has no blank line) and walks the paragraphs in order; a
\* paragraph joins the accumulator exactly when len(accumulator) + len(paragraph)
\* < chunk_size, otherwise the accumulator is flushed and restarted with the
\* paragraph.  So the paragraphs of the chunks are the paragraphs of the text,
\* each in exactly one chunk and in order, a chunk is closed only when the next
\* paragraph does not fit, and a chunk of two or more paragraphs is shorter
\* than chunk_size.  Checked on the paragraph fallback of a text with no heading.
C15_ParagraphAccumulation ==
    (cpc = "chunked" /\ Len(find_sections(text)) = 0) =>
        /\ ParagraphsOfChunks(sections, 1)
              = StrippedNonEmpty(SplitParagraphs(text))
        /\ \A k \in 1..(Len(sections) - 1) :
              Len(sections[k].content) + 2
                  + Len(Split(sections[k + 1].content, "\n\n")[1]) >= chunk_size
        /\ \A c \in Range(sections) :
              Len(Split(c.content, "\n\n")) >= 2 => Len(c.content) < chunk_size

\* the text is cut into a chunk of two paragraphs and a chunk of one
C15_Witness ==
    /\ cpc = "chunked"
    /\ Len(find_sections(text)) = 0
    /\ Len(sections) = 2
    /\ Len(Split(sections[1].content, "\n\n")) = 2
    /\ Len(Split(sections[2].content, "\n\n")) = 1

(***************************************************************************)
(* Claims about the table functions                                        *)
(***************************************************************************)
\* the lines of an output text
OutLines(out) == Range(Split(out, "\n"))

\* C6 as stated: the table of header row ["Kalem","Risk","PCN","Mevcut Limit"]
\* and data row ["UMUMI","1.346.045.880","TRY","2.025.000.000"] flattens to
\* exactly "UMUMI: Risk 1.346.045.880 TRY, Mevcut Limit 2.025.000.000 TRY":
\* the value column right of the marker column also gets the marker value.
C6_ScenarioLineAsClaimed ==
    (tpc # "start" /\ table = <<HeaderRow, DataRow>>) =>
        smart.out = "UMUMI: Risk 1.346.045.880 TRY, Mevcut Limit 2.025.000.000 TRY"

\* C6 amended: that table flattens to exactly
\* "UMUMI: Risk 1.346.045.880 TRY, Mevcut Limit: 2.025.000.000"; wherever that
\* data row stands under that header row, the value column left of the marker
\* column is emitted as "<header> <value> <marker value>" and the value
\* column right of it, which has no marker, as "<header>: <value>".
C6_ScenarioLine ==
    tpc # "start" =>
        /\ table = <<HeaderRow, DataRow>> =>
              smart.out = "UMUMI: Risk 1.346.045.880 TRY, Mevcut Limit: 2.025.000.000"
        /\ \A k \in DOMAIN smart.rows :
              (/\ smart.rows[k].headers = HeaderRow.cells
               /\ smart.rows[k].values = DataRow.cells) =>
                  /\ PartTexts(smart.rows[k].parts) =
                        << "Risk 1.346.045.880 TRY",
                           "Mevcut Limit: 2.025.000.000" >>
                  /\ smart.rows[k].lines =
                        << "UMUMI: Risk 1.346.045.880 TRY, Mevcut Limit: 2.025.000.000" >>
                  /\ smart.rows[k].lines[1] \in OutLines(smart.out)

\* the scenario table, parsed
C6_Witness ==
    /\ tpc = "smart"
    /\ table = <<HeaderRow, DataRow>>
    /\ Len(smart.rows) = 1
    /\ smart.rows[1].kind = "data"
    /\ smart.out = "UMUMI: Risk 1.346.045.880 TRY, Mevcut Limit: 2.025.000.000"

\* C8: a table whose only row of two or more cells is
\* ["CEK KARNESI","0","2.000.000","TRY","5.000.000","TRY"] has no header row,
\* and _parse_trs_smart emits for it the line of the positional currency-code
\* scan, "CEK KARNESI: 0, 2.000.000 TRY, 5.000.000 TRY".
C8_NoHeaderRowFlattened ==
    (/\ tpc # "start"
     /\ \E k \in 1..Len(table) :
           /\ table[k] = CekRow
           /\ \A j \in 1..Len(table) : j # k => Len(table[j].cells) <= 1) =>
        "CEK KARNESI: 0, 2.000.000 TRY, 5.000.000 TRY" \in OutLines(smart.out)

\* a marker cell of a row: the cell of a PCN column of the header row or,
\* in a row flattened without header row, a cell holding a currency code
IsMarkerCell(headers, values, c) ==
    \/ c \in PcnIndices(headers)
    \/ Len(headers) = 0 /\ c < Len(values) /\ IsCurrencyCode(values[c + 1])

\* each cell is the value of at most one part, and of no part when it is a
\* marker cell
PartsOfValuesOnly(headers, values, parts) ==
    /\ \A a, b \in 1..Len(parts) : a # b => parts[a].col # parts[b].col
    /\ \A a \in 1..Len(parts) : ~IsMarkerCell(headers, values, parts[a].col)

\* C9: in every flattened data line of _parse_trs_smart, of
\* _process_mali_section and of _flatten_with_currency, each value cell of the
\* row is in at most one part and a marker cell is never a part of its own.
C9_PartsDisjointNoBareMarker ==
    /\ \A k \in DOMAIN smart.rows :
          PartsOfValuesOnly(smart.rows[k].headers, smart.rows[k].values,
                            smart.rows[k].parts)
    /\ \A k \in DOMAIN mali.rows :
          PartsOfValuesOnly(mali.rows[k].headers, mali.rows[k].values,
                            mali.rows[k].parts)
    /\ tpc = "flat" => PartsOfValuesOnly(<<>>, cells, flat.parts)

(***************************************************************************)
(* Claims about the teklif parser                                          *)
(***************************************************************************)
\* C10: for every tbody with an id P and every tbody with an id C inside P,
\* no text of an element inside C is in the section emitted for P.
C10_NoNestedContent ==
    \A s \in 1..Len(teklif) :
        \A c \in 1..Len(soup) :
            (/\ soup[c].tag = "tbody"
             /\ soup[c].id # ""
             /\ IsInside(soup, c, teklif[s].tbody)) =>
                \A e \in 1..Len(soup) :
                    (IsInside(soup, e, c) /\ soup[e].text # "") =>
                        ~IsSubstr(soup[e].text, teklif[s].text)

(***************************************************************************)
(* Claims about convert                                                    *)
(***************************************************************************)
HasTbodyWithId(doc) ==
    \E i \in 1..Len(doc) : doc[i].tag = "tbody" /\ doc[i].id # ""

HasDlBoldDiv(doc) ==
    \E i \in 1..Len(doc) :
        /\ doc[i].tag = "div"
        /\ \E k \in 1..Len(doc[i].class) : IsSubstr("dl-bold", doc[i].class[k])

IsTitleOnly(s) == SubSeq(s, 1, 3) = "## " /\ ~IsSubstr("\n", s)

\* no element of the document has text
HasNoText(doc) == \A n \in 1..Len(doc) : Strip(doc[n].text) = ""

\* the behaviour on degenerate input that holds in every layout: convert returns
\* the empty string when no section remains and when no element has text, and
\* chunk returns a list on a text with no heading (the paragraph fallback),
\* the empty list on the empty text
DegenerateInputHandled ==
    /\ vpc = "done" =>
          /\ (\A k \in 1..Len(parsed) : Strip(parsed[k]) = "") => result = ""
          /\ HasNoText(page) => result = ""
    /\ (cpc = "chunked" /\ text = "") => final_chunks = <<>>
    /\ (cpc = "chunked" /\ Len(find_sections(text)) = 0) =>
          /\ sections = chunk_by_paragraphs(text, chunk_size, <<>>)
          /\ final_chunks = PostPassAll(sections, 1, chunk_size)

HasNoLayout(doc) ==
    /\ ~HasTbodyWithId(doc)
    /\ ~HasDlBoldDiv(doc)
    /\ \A i \in 1..Len(doc) : doc[i].tag # "table"

\* get_text(separator = "\n", strip = True): the non-blank strings of the
\* document, stripped, in document order, one per line
FlatTextLines(doc) ==
    Join("\n", SelectSeq([i \in 1..Len(doc) |-> Strip(doc[i].text)],
                         LAMBDA t : t # ""))

\* C17: for a document that has text but no tbody with an id, no dl-bold div
\* and no table, convert falls back to flat line extraction: the result is the
\* text lines of the document and not the empty string.
C17_FlatTextFallback ==
    (vpc = "done" /\ HasNoLayout(page) /\ ~HasNoText(page)) =>
        /\ result # ""
        /\ result = FlatTextLines(page)

(***************************************************************************)
(* Claims about the preprocessor                                           *)
(***************************************************************************)
\* the document has a heading, paragraph, list item or table row with text
\* outside script and style
HasRelevantText(doc) ==
    \E k \in 1..Len(TextParts(WithoutTags(doc, {"script", "style"}),
                              FindAll(WithoutTags(doc, {"script", "style"}),
                                      0, RelevantTags))) :
        Strip(TextParts(WithoutTags(doc, {"script", "style"}),
                        FindAll(WithoutTags(doc, {"script", "style"}),
                                0, RelevantTags))[k]) # ""

\* the lines of one reduction of the markup, normalised and cleaned
ReducedOnce(c) == clean_text(ListSub(HeadingSub(clean_html(c).chars, 1), 1))

\* C18: preprocess of a markup source with file_type "html" and the default
\* flags returns the heading, paragraph, list and table lines of the document:
\* clean_html is applied exactly once, and a document that has such elements
\* does not give the empty result.
C18_HtmlReducedOnce ==
    (/\ ppc = "done"
     /\ raw_content.markup
     /\ file_type = "html"
     /\ flags.clean
     /\ flags.to_markdown) =>
        /\ cleanings = 1
        /\ processed = ReducedOnce(raw_content)
        /\ HasRelevantText(raw_content.doc) => Len(processed) > 0

\* C19: the output of clean_text has no two adjacent whitespace characters
\* other than newlines, no run of three or more newlines, no line that starts
\* or ends with whitespace, no two adjacent characters of ".?!", and no
\* character below code point 32 other than tab and newline.
C19_CleanTextProperties ==
    (ppc = "done" /\ ~raw_content.markup /\ flags.clean) =>
        /\ \A i \in 1..(Len(processed) - 1) :
              ~(processed[i] \in HSpace /\ processed[i + 1] \in HSpace)
        /\ \A i \in 1..(Len(processed) - 2) :
              ~(/\ processed[i] = "\n"
                /\ processed[i + 1] = "\n"
                /\ processed[i + 2] = "\n")
        /\ \A i \in 1..Len(processed) :
              processed[i] \in HSpace =>
                  /\ ~IsLineStart(processed, i)
                  /\ i < Len(processed)
                  /\ processed[i + 1] # "\n"
        /\ \A i \in 1..(Len(processed) - 1) :
              ~(/\ processed[i] \in TerminalPunct
                /\ processed[i + 1] \in TerminalPunct)
        /\ \A i \in 1..Len(processed) : processed[i] \notin ControlChars

(***************************************************************************)
(* Claims about the rows of header-based flattening                        *)
(***************************************************************************)
\* the non-empty cells of a row
NonBlank(values) == SelectSeq(values, LAMBDA v : Strip(v) # "")

\* the lines of a row are a sub-heading line and nothing else
IsSubHeading(row, heading) ==
    row.kind = "heading" /\ row.lines = << "\n### " \o heading >>

\* C20 as stated: in header-based flattening every data row that has exactly
\* one non-empty cell, whatever its number of cells, is emitted as the
\* sub-heading line "### <text>" and not as a data line.
C20_OneNonEmptyCellIsHeading ==
    tpc # "start" =>
        \A k \in 1..Len(smart.rows) :
            Len(NonBlank(smart.rows[k].values)) = 1 =>
                IsSubHeading(smart.rows[k], Strip(NonBlank(smart.rows[k].values)[1]))

\* C20, amended: a data row that has exactly one cell, not blank, is emitted
\* as the sub-heading line "### <text>"; a row of two or more cells is a data
\* line also when only one of its cells is non-empty, the label alone when
\* that cell is the first.
C20_SingleCellRowIsHeading ==
    tpc # "start" =>
        \A k \in 1..Len(smart.rows) :
            /\ (Len(smart.rows[k].values) = 1
                    /\ Len(NonBlank(smart.rows[k].values)) = 1) =>
                  /\ IsSubHeading(smart.rows[k], Strip(smart.rows[k].values[1]))
                  /\ ("### " \o Strip(smart.rows[k].values[1]))
                        \in OutLines(smart.out)
            /\ (Len(smart.rows[k].values) >= 2
                    /\ Len(NonBlank(smart.rows[k].values)) = 1) =>
                  /\ smart.rows[k].kind = "data"
                  /\ Strip(smart.rows[k].values[1]) # "" =>
                        smart.rows[k].lines = << smart.rows[k].values[1] >>

\* under a header row, a one-cell row and a three-cell row with one non-empty
\* cell
C20_Witness ==
    /\ tpc = "smart"
    /\ table = <<HeaderRow, TitleRow, BreakRow>>
    /\ smart.rows[1].kind = "heading"
    /\ smart.rows[2].kind = "data"
    /\ smart.out = "\n### LIMIT BILGILERI\nARA TOPLAM"

(***************************************************************************)
(* Claims about the sections of the mali_veri layout                       *)
(***************************************************************************)
\* the first non-empty text of a row, "" when it has none
FirstText(tr) ==
    IF Len(NonEmpty(tr.cells)) > 0 THEN NonEmpty(tr.cells)[1] ELSE ""

\* the rows of two or more cells
MultiCellRows(trs) == {j \in 1..Len(trs) : Len(trs[j].cells) >= 2}

\* the members after position s (a break, or 0 for the start of the table) with
\* no break between s and them
RunAfter(trs, s, breaks, members) ==
    SelectSeq([j \in 1..Len(trs) |-> j],
              LAMBDA j : /\ j \in members
                         /\ j > s
                         /\ \A b \in breaks : ~(s < b /\ b < j))

\* the sections of a table cut at the rows breaks: every non-empty run of
\* members, under the text of the break before it
GroupsByBreaks(trs, breaks, members) ==
    LET starts == SelectSeq([i \in 1..(Len(trs) + 1) |-> i - 1],
                      LAMBDA st : /\ st \in breaks \cup {0}
                                  /\ Len(RunAfter(trs, st, breaks, members)) > 0)
    IN  [g \in 1..Len(starts) |->
            [title |-> IF starts[g] = 0 THEN "" ELSE FirstText(trs[starts[g]]),
             data_trs |-> [m \in 1..Len(RunAfter(trs, starts[g], breaks, members))
                             |-> trs[RunAfter(trs, starts[g], breaks, members)[m]]]]]

\* the section texts of the groups, the empty ones left out
SectionTextsOf(groups) ==
    SelectSeq([g \in 1..Len(groups) |->
                  process_mali_section(groups[g].title, groups[g].data_trs)],
              LAMBDA section_text : section_text # "")

\* the rows with at most one non-empty cell
OneTextRows(trs) == {j \in 1..Len(trs) : Len(NonEmpty(trs[j].cells)) <= 1}

\* the rows of at most one cell whose text is longer than three characters
TitleRows(trs) ==
    {j \in 1..Len(trs) : Len(trs[j].cells) <= 1 /\ Len(FirstText(trs[j])) > 3}

\* C21 as stated: in _parse_mali_veri every row with at most one non-empty
\* cell is a section break that flushes the run collected so far and is the
\* title of the next run, every other row of two or more cells joins the
\* current run, and the sections come out in document order.
C21_BreakOnOneNonEmptyCell ==
    tpc \in {"mali", "flat"} =>
        mali.sections = SectionTextsOf(
            GroupsByBreaks(table, OneTextRows(table),
                           MultiCellRows(table) \ OneTextRows(table)))

\* C21, amended: the section breaks are the rows of at most one cell whose
\* text is longer than three characters; every row of two or more cells,
\* whatever the number of its non-empty cells, joins the current run; so the
\* rows of two or more cells are, in document order, the rows of the groups,
\* each group under the most recent break before it.
C21_BreakOnTitleRow ==
    tpc \in {"mali", "flat"} =>
        /\ MaliGroups(table, 1, "", <<>>)
              = GroupsByBreaks(table, TitleRows(table), MultiCellRows(table))
        /\ mali.sections = SectionTextsOf(
              GroupsByBreaks(table, TitleRows(table), MultiCellRows(table)))
        /\ ConcatSeqs([g \in 1..Len(MaliGroups(table, 1, "", <<>>)) |->
                          MaliGroups(table, 1, "", <<>>)[g].data_trs])
              = SelectSeq(table, LAMBDA tr : Len(tr.cells) >= 2)

\* a table with a run before and a run after a title row
C21_Witness ==
    /\ tpc = "mali"
    /\ table = <<PairRow, TitleRow, DataRow>>
    /\ Len(mali.sections) = 2

(***************************************************************************)
(* DocumentIngestionUseCase (document_ingestion_use_case.py)               *)
(* execute is modelled step by step; a step that raises moves to "except"  *)
(* with the exception in frame.error, which the handler of execute turns   *)
(* into the value returned.                                                *)
(***************************************************************************)
\* the position of the last "." of s, 0 when there is none
RECURSIVE LastDot(_, _)
LastDot(s, i) ==
    IF i = 0 THEN 0
    ELSE IF Ch(s, i) = "." THEN i ELSE LastDot(s, i - 1)

\* Path(name).suffix: from the last "." on, "" when the name has no "." after
\* its first character or ends with it
Suffix(name) ==
    LET d == LastDot(name, Len(name))
    IN  IF d <= 1 \/ d = Len(name) THEN "" ELSE SubSeq(name, d, Len(name))

\* name.rsplit(".", 1)[0]
Stem(name) ==
    LET d == LastDot(name, Len(name))
    IN  IF d = 0 THEN name ELSE SubSeq(name, 1, d - 1)

\* s.lstrip(".")
RECURSIVE LStripDots(_)
LStripDots(s) ==
    IF Len(s) > 0 /\ Ch(s, 1) = "." THEN LStripDots(Tail(s)) ELSE s

\* s.replace(old, new) for a one-character old
RECURSIVE ReplaceChar(_, _, _)
ReplaceChar(s, old, new) ==
    IF Len(s) = 0 THEN ""
    ELSE (IF Ch(s, 1) = old THEN new ELSE Ch(s, 1)) \o ReplaceChar(Tail(s), old, new)

\* str.upper() of one character
UpperOf(c) ==
    LET k == FindFrom(LowerCase, c, 1) IN IF k = 0 THEN c ELSE Ch(UpperCase, k)

IsLetter(c) == FindFrom(LowerCase, c, 1) # 0 \/ FindFrom(UpperCase, c, 1) # 0

\* str.title(): a letter after a non-letter is upper-cased, a letter after a
\* letter is lower-cased
RECURSIVE TitleFrom(_, _)
TitleFrom(s, after_letter) ==
    IF Len(s) = 0 THEN ""
    ELSE (IF after_letter THEN Lower(Ch(s, 1)) ELSE UpperOf(Ch(s, 1)))
             \o TitleFrom(Tail(s), IsLetter(Ch(s, 1)))

\* "".join(cs) for the characters cs of a text
RECURSIVE JoinChars(_)
JoinChars(cs) ==
    IF Len(cs) = 0 THEN ""
    ELSE IF Len(cs) = 1 THEN cs[1]
         ELSE JoinChars(SubSeq(cs, 1, Len(cs) \div 2))
                  \o JoinChars(SubSeq(cs, Len(cs) \div 2 + 1, Len(cs)))

\* execute: doc_label and the prefix put before every chunk
DocLabel(filename) ==
    TitleFrom(ReplaceChar(ReplaceChar(Stem(filename), "-", " "), "_", " "), FALSE)

SourcePrefix(filename) == "[Kaynak: " \o DocLabel(filename) \o "]\n\n"

\* _extract_text: the extractor of each file type
Extractors ==
    [ft \in {".pdf", ".docx", ".txt", ".html", ".xlsx", ".pptx"} |->
        "_extract_" \o SubSeq(ft, 2, Len(ft))]

\* execute: preprocess_type
PreprocessType(filename) ==
    LET raw_type == LStripDots(Suffix(filename))
    IN  IF raw_type \in {"html", "htm"} THEN "txt" ELSE raw_type

\* the chunk_size and chunk_overlap execute builds its IntelligentChunker with
ExecuteChunkSize == 1000
ExecuteChunkOverlap == 200

\* the classes of the exceptions the collaborators raise, with their bases
ExceptionBase ==
    [cls \in {"ValueError", "OSError", "RuntimeError", "Exception"} |->
        IF cls = "Exception" THEN "BaseException" ELSE "Exception"]

\* isinstance(exception of class cls, handler)
RECURSIVE IsInstance(_, _)
IsInstance(cls, handler) ==
    \/ cls = handler
    \/ cls \in DOMAIN ExceptionBase /\ IsInstance(ExceptionBase[cls], handler)

\* mutant: the handler of execute catches ValueError only
Catches_ValueErrorOnly(cls) == IsInstance(cls, "ValueError")

\* execute: "except Exception as e"
Catches(cls) == IsInstance(cls, "Exception")

\* str(n) for a one-digit n
Str(n) == Ch("0123456789", n + 1)

\* execute: "if len(embeddings) != len(chunks)"
CountMismatch(embeddings, chunks) == Len(embeddings) # Len(chunks)

\* mutant: chunk_index counts from the end
DocumentChunks_Reversed(filename, chunks, embeddings, chunk_objects, original_length) ==
    [k \in 1..Min({Len(chunks), Len(embeddings)}) |->
        [filename |-> filename,
         chunk_index |-> Min({Len(chunks), Len(embeddings)}) - k,
         content |-> chunks[k],
         embedding |-> embeddings[k],
         metadata |-> [file_type |-> Suffix(filename),
                       chunk_size |-> Len(chunks[k]),
                       original_length |-> original_length,
                       header |-> chunk_objects[k].header,
                       source |-> filename,
                       chunk_position |-> chunk_objects[k].position]]]

\* execute: the DocumentChunk list, one per pair of zip(chunks, embeddings),
\* idx = k - 1
DocumentChunks(filename, chunks, embeddings, chunk_objects, original_length) ==
    [k \in 1..Min({Len(chunks), Len(embeddings)}) |->
        [filename |-> filename,
         chunk_index |-> k - 1,
         content |-> chunks[k],
         embedding |-> embeddings[k],
         metadata |-> [file_type |-> Suffix(filename),
                       chunk_size |-> Len(chunks[k]),
                       original_length |-> original_length,
                       header |-> chunk_objects[k].header,
                       source |-> filename,
                       chunk_position |-> chunk_objects[k].position]]]

Raise(cls, message) == [cls |-> cls, message |-> message]

(***************************************************************************)
(* Inputs and steps of execute                                             *)
(***************************************************************************)
Y60 == "yyyyyyyyyyyyyyyyyyyyyyyyyyyyyyyyyyyyyyyyyyyyyyyyyyyyyyyyyyyy"

\* the text the extractor reads from the file
FileTexts ==
    { "",
      "# T\n" \o Y60 \o "\n",
      "# T\n" \o Y60 \o "\n## A\n" \o Y60 \o "\n",
      Y60 \o "\n\n" \o Y60 }

Filenames ==
    { "mali-rapor.html", "mali-rapor.htm", "Ozet.HTML", "teklif_2.pdf",
      "notlar.txt", "sunum.pptx", "arsiv.zip", "README" }

\* RAG_CHUNK_SIZE, RAG_CHUNK_OVERLAP of the configuration
RagConfigs ==
    { [chunk_size |-> 1000, chunk_overlap |-> 200],
      [chunk_size |-> 100, chunk_overlap |-> 20],
      [chunk_size |-> 60, chunk_overlap |-> 60] }

\* the vector of the k-th text of a batch
Vector(k) == <<k>>

InitIngest ==
    /\ upload \in [filename : Filenames, text : FileTexts]
    /\ rag_config \in RagConfigs
    /\ ipc = "start"
    /\ calls = <<>>
    /\ frame = NoFrame
    /\ outcome = [kind |-> "none"]
    /\ ChunkIdle
    /\ RowIdle
    /\ TableIdle
    /\ TeklifIdle
    /\ ConvertIdle
    /\ PrepIdle
    /\ RateIdle
    /\ RagIdle
    /\ LoopIdle

\* execute: text = self._extract_text(file_path); file_path carries the suffix
\* of filename
ExtractText ==
    /\ ipc = "start"
    /\ LET ftype == Lower(Suffix(upload.filename))
       IN  IF ftype \in DOMAIN Extractors
           THEN /\ calls' = Append(calls, Extractors[ftype])
                /\ \/ /\ frame' = [frame EXCEPT !.text = upload.text,
                                                !.original_length = Len(upload.text)]
                      /\ ipc' = "extracted"
                   \/ /\ \E cls \in {"OSError", "Exception"} :
                            frame' = [frame EXCEPT
                                         !.error = Raise(cls, "extraction failed")]
                      /\ ipc' = "except"
           ELSE /\ calls' = calls
                /\ frame' = [frame EXCEPT !.error =
                                Raise("ValueError", "Unsupported file type: " \o ftype)]
                /\ ipc' = "except"
    /\ UNCHANGED <<upload, rag_config, outcome, libVars, rateVars, ragVars, loopVars>>

\* execute: text = preprocessor.preprocess(text, file_type=preprocess_type)
PreprocessText ==
    /\ ipc = "extracted"
    /\ calls' = Append(calls, "preprocess")
    /\ frame' = [frame EXCEPT
                    !.preprocess_type = PreprocessType(upload.filename),
                    !.text = JoinChars(preprocess(PlainText(ToChars(frame.text)),
                                           PreprocessType(upload.filename), TRUE, TRUE))]
    /\ ipc' = "preprocessed"
    /\ UNCHANGED <<upload, rag_config, outcome, libVars, rateVars, ragVars, loopVars>>

\* execute: chunk_objects = IntelligentChunker(1000, 200).chunk(text), and the
\* contents with the source prefix
ChunkText ==
    /\ ipc = "preprocessed"
    /\ calls' = Append(calls, "chunk")
    /\ LET chunk_objects == chunk(frame.text, ExecuteChunkSize)
       IN  frame' = [frame EXCEPT
                        !.chunk_objects = chunk_objects,
                        !.chunks = [k \in 1..Len(chunk_objects) |->
                                       SourcePrefix(upload.filename)
                                           \o chunk_objects[k].content]]
    /\ ipc' = "chunked"
    /\ UNCHANGED <<upload, rag_config, outcome, libVars, rateVars, ragVars, loopVars>>

\* execute: embeddings = await embed_batch(chunks), and the count check
EmbedBatch ==
    /\ ipc = "chunked"
    /\ calls' = Append(calls, "embed_batch")
    /\ \/ \E n \in {Len(frame.chunks) - 1, Len(frame.chunks), Len(frame.chunks) + 1} :
             /\ n >= 0
             /\ LET embeddings == [k \in 1..n |-> Vector(k)]
                IN  IF CountMismatch(embeddings, frame.chunks)
                    THEN /\ frame' = [frame EXCEPT
                                         !.embeddings = embeddings,
                                         !.error = Raise("Exception",
                                                       "Embedding count mismatch: "
                                                           \o Str(n) \o " vs "
                                                           \o Str(Len(frame.chunks)))]
                         /\ ipc' = "except"
                    ELSE /\ frame' = [frame EXCEPT !.embeddings = embeddings]
                         /\ ipc' = "embedded"
       \/ /\ \E cls \in {"RuntimeError", "Exception"} :
                frame' = [frame EXCEPT !.error = Raise(cls, "embedding failed")]
          /\ ipc' = "except"
    /\ UNCHANGED <<upload, rag_config, outcome, libVars, rateVars, ragVars, loopVars>>

\* execute: documents = [DocumentChunk(...)], saved_docs = await save_batch(documents)
SaveBatch ==
    /\ ipc = "embedded"
    /\ calls' = Append(calls, "save_batch")
    /\ LET documents == DocumentChunks(upload.filename, frame.chunks, frame.embeddings,
                                  frame.chunk_objects, frame.original_length)
       IN  \/ /\ frame' = [frame EXCEPT !.documents = documents,
                                        !.saved_docs = documents]
              /\ ipc' = "saved"
           \/ /\ \E cls \in {"RuntimeError", "Exception"} :
                    frame' = [frame EXCEPT !.documents = documents,
                                           !.error = Raise(cls, "save failed")]
              /\ ipc' = "except"
    /\ UNCHANGED <<upload, rag_config, outcome, libVars, rateVars, ragVars, loopVars>>

\* execute: return DocumentIngestionResult(status="success", ...)
ReturnSuccess ==
    /\ ipc = "saved"
    /\ outcome' = [kind |-> "returned", status |-> "success",
                   filename |-> upload.filename,
                   chunks_ingested |-> Len(frame.saved_docs),
                   total_tokens |-> frame.original_length \div 4,
                   error |-> ""]
    /\ ipc' = "done"
    /\ UNCHANGED <<upload, rag_config, calls, frame, libVars, rateVars, ragVars, loopVars>>

\* execute: "except Exception as e: return DocumentIngestionResult(status="error", ...)";
\* an exception the handler does not catch leaves execute
ExceptHandler ==
    /\ ipc = "except"
    /\ outcome' = IF Catches(frame.error.cls)
                  THEN [kind |-> "returned", status |-> "error",
                        filename |-> upload.filename,
                        chunks_ingested |-> 0,
                        total_tokens |-> 0,
                        error |-> frame.error.message]
                  ELSE [kind |-> "raised", cls |-> frame.error.cls]
    /\ ipc' = "done"
    /\ UNCHANGED <<upload, rag_config, calls, frame, libVars, rateVars, ragVars, loopVars>>

NextIngest ==
    \/ ExtractText
    \/ PreprocessText
    \/ ChunkText
    \/ EmbedBatch
    \/ SaveBatch
    \/ ReturnSuccess
    \/ ExceptHandler

SpecIngest == InitIngest /\ [][NextIngest]_vars

(***************************************************************************)
(* Claims about execute                                                    *)
(***************************************************************************)
IsMarkupFile(filename) == Lower(Suffix(filename)) \in {".html", ".htm"}

\* the positions of calls at which the collaborator name was called
CallsOf(name) == {k \in 1..Len(calls) : calls[k] = name}

\* C22: when execute is done with a markup file (.html or .htm),
\* HTMLStructuredConverter.convert was called exactly once, before the
\* preprocessing and the chunking; for any other file it is never called.
C22_ConvertOncePerMarkupFile ==
    /\ ~IsMarkupFile(upload.filename) => CallsOf("convert") = {}
    /\ (ipc = "done" /\ IsMarkupFile(upload.filename)) =>
          /\ Cardinality(CallsOf("convert")) = 1
          /\ \A c \in CallsOf("convert") :
                \A k \in CallsOf("preprocess") \cup CallsOf("chunk") : c < k

\* C26: execute never leaves by an exception; a failure of the extraction
\* (an unsupported extension included), of the embedding (a wrong number of
\* embeddings included) or of the saving is returned as a result with status
\* "error", chunks_ingested 0, total_tokens 0 and the message; "success" is
\* returned only after save_batch returned; save_batch is not called when
\* embed_batch failed or returned a wrong number of embeddings.
C26_FailuresAreReturned ==
    /\ outcome.kind # "raised"
    /\ (ipc = "done" /\ frame.error.cls # "") =>
          outcome = [kind |-> "returned", status |-> "error",
                     filename |-> upload.filename, chunks_ingested |-> 0,
                     total_tokens |-> 0, error |-> frame.error.message]
    /\ (ipc = "done" /\ Lower(Suffix(upload.filename)) \notin DOMAIN Extractors) =>
          /\ outcome.status = "error"
          /\ calls = <<>>
    /\ (outcome.kind = "returned" /\ outcome.status = "success") =>
          /\ frame.error.cls = ""
          /\ Len(calls) > 0
          /\ calls[Len(calls)] = "save_batch"
          /\ outcome.chunks_ingested = Len(frame.saved_docs)
    /\ CallsOf("save_batch") # {} =>
          /\ Cardinality(CallsOf("embed_batch")) = 1
          /\ Len(frame.embeddings) = Len(frame.chunks)
          /\ frame.error.message \in {"", "save failed"}

C26_Witness ==
    /\ ipc = "done"
    /\ Len(frame.chunks) = 2
    /\ Len(frame.embeddings) = 1
    /\ outcome.kind = "returned"
    /\ outcome.status = "error"
    /\ outcome.error = "Embedding count mismatch: 1 vs 2"
    /\ CallsOf("save_batch") = {}

\* C27: after a successful execute the DocumentChunks handed to save_batch
\* correspond one to one, in order, to the chunks the chunker returned: as
\* many documents as chunks, the k-th (from 0) with chunk_index k, the source
\* prefix followed by the content of the k-th chunk, the k-th embedding, and
\* the header and position of the k-th chunk in its metadata.
C27_DocumentsMatchChunks ==
    (outcome.kind = "returned" /\ outcome.status = "success") =>
        /\ frame.chunk_objects = chunk(frame.text, ExecuteChunkSize)
        /\ Len(frame.documents) = Len(frame.chunk_objects)
        /\ \A k \in 1..Len(frame.documents) :
              /\ frame.documents[k].chunk_index = k - 1
              /\ frame.documents[k].content =
                     SourcePrefix(upload.filename) \o frame.chunk_objects[k].content
              /\ frame.documents[k].embedding = frame.embeddings[k]
              /\ frame.documents[k].metadata.header = frame.chunk_objects[k].header
              /\ frame.documents[k].metadata.chunk_position =
                     frame.chunk_objects[k].position

C27_Witness ==
    /\ outcome.kind = "returned"
    /\ outcome.status = "success"
    /\ upload.filename = "teklif_2.pdf"
    /\ Len(frame.documents) = 2
    /\ frame.documents[2].chunk_index = 1
    /\ frame.documents[2].metadata.header = <<"T > A">>
    /\ SubSeq(frame.documents[2].content, 1, 25) = "[Kaynak: Teklif 2]\n\n## A\n"

\* C28: the chunks execute creates are those of a chunker with the
\* chunk_size the use case was constructed with, for every configured value.
C28_ConfiguredChunkSize ==
    CallsOf("chunk") # {} =>
        frame.chunk_objects = chunk(frame.text, rag_config.chunk_size)

(***************************************************************************)
(* Claim about the text kept by chunk_by_headers                           *)
(***************************************************************************)
\* the characters of s that are not whitespace, in order
SolidChars(s) == SelectSeq(ToChars(s), LAMBDA c : c \notin Whitespace)

\* C25: for a text with headings, the contents of the sections returned by
\* chunk_by_headers, in order, hold every non-whitespace character of the
\* text from its start to its end, the text before the first heading
\* included.
C25_HeadersLoseNoText ==
    (cpc = "chunked" /\ Len(find_sections(text)) > 0) =>
        ConcatSeqs([k \in 1..Len(sections) |-> SolidChars(sections[k].content)])
            = SolidChars(text)

(***************************************************************************)
(* RedisClient.check_rate_limit (redis_client.py)                          *)
(* One key, rate_limit:<identifier>.  Every Redis command is one atomic    *)
(* step of the server; the calls of check_rate_limit interleave between    *)
(* their commands.  store.count = 0 stands for a key that does not exist,  *)
(* store.ttl = 0 for a key without expiry.                                 *)
(***************************************************************************)
MaxCalls == 3
Limit == 2
WindowSeconds == 2

\* mutant: an increment of an existing counter is lost
incr_LostUpdate(count) == IF count = 0 THEN 1 ELSE count

\* INCR key: the value after the increment; a missing key counts from 0
incr(count) == count + 1

\* check_rate_limit: "return current <= limit"
WithinLimit(current, limit) == current <= limit

NewCall == [pc |-> "start", current |-> 0, returned |-> "none", failed |-> FALSE]

InitRateLimit ==
    /\ connected \in BOOLEAN
    /\ store = [count |-> 0, ttl |-> 0]
    /\ \E n \in 1..MaxCalls : callers = [p \in 1..n |-> NewCall]
    /\ expirations = 0
    /\ ChunkIdle
    /\ RowIdle
    /\ TableIdle
    /\ TeklifIdle
    /\ ConvertIdle
    /\ PrepIdle
    /\ IngestIdle
    /\ RagIdle
    /\ LoopIdle

\* check_rate_limit: "if not self._redis: return True", else
\* "current = await self._redis.incr(key)"; a command that fails is caught
\* by "except Exception" and the call returns True
Incr(p) ==
    /\ callers[p].pc = "start"
    /\ IF ~connected
       THEN /\ callers' = [callers EXCEPT ![p].pc = "done", ![p].returned = "True"]
            /\ store' = store
       ELSE \/ /\ store' = [store EXCEPT !.count = incr(store.count)]
               /\ callers' = [callers EXCEPT ![p].pc = "incremented",
                                             ![p].current = incr(store.count)]
            \/ /\ store' = store
               /\ callers' = [callers EXCEPT ![p].pc = "done",
                                             ![p].returned = "True",
                                             ![p].failed = TRUE]
    /\ UNCHANGED <<connected, expirations, libVars, ingestVars, ragVars, loopVars>>

\* check_rate_limit: "if current == 1: await self._redis.expire(key,
\* window_seconds)", then "return current <= limit"; EXPIRE of a key that
\* does not exist does nothing
Expire(p) ==
    /\ callers[p].pc = "incremented"
    /\ callers[p].current = 1
    /\ store' = IF store.count > 0 THEN [store EXCEPT !.ttl = WindowSeconds] ELSE store
    /\ callers' = [callers EXCEPT
                      ![p].pc = "done",
                      ![p].returned = IF WithinLimit(callers[p].current, Limit)
                                      THEN "True" ELSE "False"]
    /\ UNCHANGED <<connected, expirations, libVars, ingestVars, ragVars, loopVars>>

\* the call that created the counter does not get its EXPIRE through: the
\* command fails ("except Exception: return True"), or the task is cancelled
\* at the await and returns nothing
ExpireFails(p) ==
    /\ callers[p].pc = "incremented"
    /\ callers[p].current = 1
    /\ \E returned \in {"True", "none"} :
          callers' = [callers EXCEPT ![p].pc = "done", ![p].returned = returned,
                                     ![p].failed = TRUE]
    /\ UNCHANGED <<connected, store, expirations, libVars, ingestVars, ragVars, loopVars>>

\* check_rate_limit: "return current <= limit" of a call that did not create
\* the counter
Return(p) ==
    /\ callers[p].pc = "incremented"
    /\ callers[p].current # 1
    /\ callers' = [callers EXCEPT
                      ![p].pc = "done",
                      ![p].returned = IF WithinLimit(callers[p].current, Limit)
                                      THEN "True" ELSE "False"]
    /\ UNCHANGED <<connected, store, expirations, libVars, ingestVars, ragVars, loopVars>>

\* one second passes for a key with an expiry; at 0 Redis deletes the key
Tick ==
    /\ store.count > 0
    /\ store.ttl > 0
    /\ IF store.ttl = 1
       THEN /\ store' = [count |-> 0, ttl |-> 0]
            /\ expirations' = expirations + 1
       ELSE /\ store' = [store EXCEPT !.ttl = store.ttl - 1]
            /\ expirations' = expirations
    /\ UNCHANGED <<connected, callers, libVars, ingestVars, ragVars, loopVars>>

NextRateLimit ==
    \/ \E p \in DOMAIN callers : Incr(p)
    \/ \E p \in DOMAIN callers : Expire(p)
    \/ \E p \in DOMAIN callers : ExpireFails(p)
    \/ \E p \in DOMAIN callers : Return(p)
    \/ Tick

SpecRateLimit == InitRateLimit /\ [][NextRateLimit]_vars

\* Redis expires a key that has a TTL, and a call that is not interrupted
\* goes on to its next command
SpecRateLimitFair ==
    /\ SpecRateLimit
    /\ WF_vars(Tick)
    /\ \A p \in 1..MaxCalls :
          WF_vars(p \in DOMAIN callers /\ (Incr(p) \/ Expire(p) \/ Return(p)))

(***************************************************************************)
(* Claims about the rate limit                                             *)
(***************************************************************************)
Incremented == {p \in DOMAIN callers : callers[p].current > 0}

\* no command failed, no call was interrupted and the key did not expire
OneCleanWindow ==
    /\ connected
    /\ expirations = 0
    /\ \A p \in DOMAIN callers : ~callers[p].failed

\* C23: with Redis connected and no errors, for the calls inside one window,
\* no two calls observe the same counter value, and when the n calls have
\* returned exactly min(n, limit) of them returned True and the others False.
C23_AtomicCheckAndIncrement ==
    OneCleanWindow =>
        /\ \A p, q \in Incremented :
              callers[p].current = callers[q].current => p = q
        /\ (\A p \in DOMAIN callers : callers[p].pc = "done") =>
              /\ Cardinality({p \in DOMAIN callers : callers[p].returned = "True"})
                     = Min({Len(callers), Limit})
              /\ Cardinality({p \in DOMAIN callers : callers[p].returned = "False"})
                     = Len(callers) - Min({Len(callers), Limit})

C23_Witness ==
    /\ OneCleanWindow
    /\ Len(callers) = MaxCalls
    /\ \A p \in DOMAIN callers : callers[p].pc = "done"
    /\ callers[1].current = MaxCalls
    /\ callers[1].returned = "False"
    /\ store.ttl > 0

\* the call that created the counter has its EXPIRE still to send
ExpirePending ==
    \E p \in DOMAIN callers : callers[p].pc = "incremented" /\ callers[p].current = 1

\* C24: once the call that created the counter is over, also when it failed
\* or was interrupted before its EXPIRE, a rate-limit key that exists has an
\* expiry, so that a counter that exists is eventually reset.
C24_CounterAlwaysResets ==
    /\ []((store.count > 0 /\ ~ExpirePending) => store.ttl > 0)
    /\ (store.count > 0) ~> (store.count = 0)

(***************************************************************************)
(* RAGQueryUseCase.execute (rag_query_use_case.py)                         *)
(* A temperature is kept in tenths.  The dotless i of the fixed answer     *)
(* cannot be written in a TLA+ string and is written i.                    *)
(***************************************************************************)
MaxTopK == 2

\* the answer of execute when the search finds nothing
NoDocumentsAnswer == "Sorgunuzla ilgili döküman bulunamadi."

\* mutant: the temperature of the query is handed to the model
LlmTemperature_FromQuery(q) == q.temperature

\* execute: "temperature=0" of generate_response
LlmTemperature(q) == 0

LlmMaxTokens == 2000

\* execute: header = doc.metadata.get('header') when the document has metadata
HeaderOf(doc) == IF doc.metadata # <<>> THEN doc.metadata[1].header ELSE <<>>

\* execute: one part of the context, idx counted from 0
ContextPart(doc, idx) ==
    "[Kaynak " \o Str(idx + 1) \o ": " \o doc.filename
        \o (IF HeaderOf(doc) # <<>> THEN " [" \o HeaderOf(doc)[1] \o "]" ELSE "")
        \o "]\n" \o doc.content

\* execute: content_preview
ContentPreview(s) == IF Len(s) > 150 THEN SubSeq(s, 1, 150) \o "..." ELSE s

\* execute: the SourceWithMetadata of a document
SourceOf(doc) ==
    [filename |-> doc.filename, chunk_index |-> doc.chunk_index,
     header |-> HeaderOf(doc), similarity_score |-> doc.similarity_score,
     content_preview |-> ContentPreview(doc.content),
     chunk_size |-> Len(doc.content)]

\* execute: the prompt built from the documents found
BuildPrompt(documents, question) ==
    "KONTEXT (Yalnizca asagidaki bilgiyi kullan):\n"
        \o Join("\n\n---\n\n",
                [k \in 1..Len(documents) |-> ContextPart(documents[k], k - 1)])
        \o "\n\nSORU: " \o question
        \o "\n\nYANIT (kesin, kaynakli ve profesyonel):"

Call(name, args) == [name |-> name, args |-> args]

\* the positions of qcalls at which the collaborator name was called
QueryCallsOf(name) == {k \in 1..Len(qcalls) : qcalls[k].name = name}

(***************************************************************************)
(* Inputs and steps of RAGQueryUseCase.execute                             *)
(***************************************************************************)
StoredChunks ==
    { [filename |-> "rapor.pdf", chunk_index |-> 0,
       content |-> "Kredi limiti 100 TL", similarity_score |-> 9,
       metadata |-> << [header |-> <<"Limit">>] >>],
      [filename |-> "teklif.html", chunk_index |-> 3,
       content |-> "Teminat: ipotek", similarity_score |-> 4,
       metadata |-> <<>>] }

Queries ==
    [query : {"kredi limiti nedir"}, top_k : 1..MaxTopK,
     temperature : {0, 3, 7}, user_id : {"anonymous", "u1"}]

\* what generate_response returns
LlmAnswers == {" CEVAP: 100 TL\n", ""}

InitQuery ==
    /\ query \in Queries
    /\ qpc = "start"
    /\ qcalls = <<>>
    /\ qframe = NoQueryFrame
    /\ response = [kind |-> "none"]
    /\ ChunkIdle
    /\ RowIdle
    /\ TableIdle
    /\ TeklifIdle
    /\ ConvertIdle
    /\ PrepIdle
    /\ IngestIdle
    /\ RateIdle
    /\ LoopIdle

\* execute: query_embedding = await embed_text(query.query), and
\* "if not query_embedding: raise"
EmbedText ==
    /\ qpc = "start"
    /\ qcalls' = Append(qcalls, Call("embed_text", [text |-> query.query]))
    /\ \/ /\ qframe' = [qframe EXCEPT !.query_embedding = <<1>>]
          /\ qpc' = "embedded"
       \/ /\ \E message \in {"Embedding olusturulamadi", "embedding failed"} :
                qframe' = [qframe EXCEPT !.error = message]
          /\ qpc' = "except"
    /\ UNCHANGED <<query, response, libVars, ingestVars, rateVars, loopVars>>

\* execute: search_result = await search_similar(embedding, top_k, threshold=0.0)
SearchSimilar ==
    /\ qpc = "embedded"
    /\ qcalls' = Append(qcalls,
                     Call("search_similar", [embedding |-> qframe.query_embedding,
                                             top_k |-> query.top_k, threshold |-> 0]))
    /\ \/ /\ \E documents \in SeqsUpTo(StoredChunks, query.top_k) :
                qframe' = [qframe EXCEPT !.documents = documents]
          /\ qpc' = "searched"
       \/ /\ qframe' = [qframe EXCEPT !.error = "search failed"]
          /\ qpc' = "except"
    /\ UNCHANGED <<query, response, libVars, ingestVars, rateVars, loopVars>>

\* execute: "if not search_result.documents: return RAGResponse(...)"
ReturnNoDocuments ==
    /\ qpc = "searched"
    /\ qframe.documents = <<>>
    /\ qcalls' = Append(qcalls, Call("get_model_name", <<>>))
    /\ response' = [kind |-> "returned", question |-> query.query,
                    answer |-> NoDocumentsAnswer, sources |-> <<>>,
                    user_id |-> query.user_id]
    /\ qpc' = "done"
    /\ UNCHANGED <<query, qframe, libVars, ingestVars, rateVars, loopVars>>

\* execute: the context, the sources and the prompt, then
\* answer = await generate_response(prompt, system_prompt, temperature=0, max_tokens=2000)
GenerateResponse ==
    /\ qpc = "searched"
    /\ qframe.documents # <<>>
    /\ qcalls' = Append(qcalls,
                     Call("generate_response",
                          [prompt |-> BuildPrompt(qframe.documents, query.query),
                           temperature |-> LlmTemperature(query),
                           max_tokens |-> LlmMaxTokens]))
    /\ \/ /\ \E answer \in LlmAnswers :
                qframe' = [qframe EXCEPT
                              !.sources = [k \in 1..Len(qframe.documents) |->
                                              SourceOf(qframe.documents[k])],
                              !.prompt = BuildPrompt(qframe.documents, query.query),
                              !.answer = answer]
          /\ qpc' = "generated"
       \/ /\ qframe' = [qframe EXCEPT !.error = "generation failed"]
          /\ qpc' = "except"
    /\ UNCHANGED <<query, response, libVars, ingestVars, rateVars, loopVars>>

\* execute: return RAGResponse(answer=answer.strip(), sources=sources_with_metadata, ...)
ReturnAnswer ==
    /\ qpc = "generated"
    /\ qcalls' = Append(qcalls, Call("get_model_name", <<>>))
    /\ response' = [kind |-> "returned", question |-> query.query,
                    answer |-> Strip(qframe.answer), sources |-> qframe.sources,
                    user_id |-> query.user_id]
    /\ qpc' = "done"
    /\ UNCHANGED <<query, qframe, libVars, ingestVars, rateVars, loopVars>>

\* execute: "except Exception as e: ... raise"
Reraise ==
    /\ qpc = "except"
    /\ response' = [kind |-> "raised", message |-> qframe.error]
    /\ qpc' = "done"
    /\ UNCHANGED <<query, qcalls, qframe, libVars, ingestVars, rateVars, loopVars>>

NextQuery ==
    \/ EmbedText
    \/ SearchSimilar
    \/ ReturnNoDocuments
    \/ GenerateResponse
    \/ ReturnAnswer
    \/ Reraise

SpecQuery == InitQuery /\ [][NextQuery]_vars

\* C29: generate_response is called exactly when search_similar returned at
\* least one document, after embed_text and search_similar; when the search
\* returns no document execute returns the fixed answer with no source and
\* without calling generate_response; the temperature handed to
\* generate_response is 0 whatever the temperature of the query.
C29_LlmCalledOnlyWithDocuments ==
    /\ \A g \in QueryCallsOf("generate_response") :
          /\ qframe.documents # <<>>
          /\ \E e \in QueryCallsOf("embed_text") :
                \E f \in QueryCallsOf("search_similar") : e < f /\ f < g
          /\ qcalls[g].args.temperature = 0
    /\ Cardinality(QueryCallsOf("generate_response")) <= 1
    /\ (qpc = "done" /\ qframe.documents # <<>>) =>
          Cardinality(QueryCallsOf("generate_response")) = 1
    /\ (qpc = "done" /\ qframe.documents = <<>> /\ QueryCallsOf("search_similar") # {}
            /\ qframe.error = "") =>
          /\ response.kind = "returned"
          /\ response.answer = NoDocumentsAnswer
          /\ response.sources = <<>>
          /\ QueryCallsOf("generate_response") = {}

C29_Witness ==
    /\ qpc = "done"
    /\ query.temperature = 7
    /\ Len(qframe.documents) = 2
    /\ response.kind = "returned"
    /\ response.answer = "CEVAP: 100 TL"
    /\ Len(response.sources) = 2
    /\ \E g \in QueryCallsOf("generate_response") : qcalls[g].args.temperature = 0

(***************************************************************************)
(* DocumentIngestionUseCase._chunk_text (document_ingestion_use_case.py)   *)
(* The while loop is modelled one iteration at a time.                     *)
(***************************************************************************)
MaxLoopTextLen == 5
MaxWindowSize == 3
\* the loop is followed for at most this many iterations, more than any text
\* of the model needs when the start advances
MaxIterations == MaxLoopTextLen + 2

\* the position in 0..Len(s) a slice bound i stands for
SliceBound(s, i) ==
    IF i < 0 THEN Max({i + Len(s), 0}) ELSE Min({i, Len(s)})

\* s[a:b] with the 0-based bounds of the source, negative bounds included
PySlice(s, a, b) ==
    IF SliceBound(s, a) < SliceBound(s, b)
    THEN SubSeq(s, SliceBound(s, a) + 1, SliceBound(s, b))
    ELSE ""

\* _chunk_text: "start += (self.chunk_size - self.chunk_overlap)"
Advance(size, overlap) == size - overlap

InitChunkText ==
    /\ \E n \in 0..MaxLoopTextLen, size \in 1..MaxWindowSize, overlap \in 0..MaxWindowSize :
          loop = [text |-> SubSeq("abcdefghij", 1, n), chunk_size |-> size,
                  chunk_overlap |-> overlap, start |-> 0, chunks |-> <<>>,
                  pc |-> "loop"]
    /\ ChunkIdle
    /\ RowIdle
    /\ TableIdle
    /\ TeklifIdle
    /\ ConvertIdle
    /\ PrepIdle
    /\ IngestIdle
    /\ RateIdle
    /\ RagIdle

\* _chunk_text: one iteration of "while start < len(text)"
LoopStep ==
    /\ loop.pc = "loop"
    /\ loop.start < Len(loop.text)
    /\ Len(loop.chunks) < MaxIterations
    /\ loop' = [loop EXCEPT
                   !.chunks = Append(loop.chunks,
                                  PySlice(loop.text, loop.start,
                                          loop.start + loop.chunk_size)),
                   !.start = loop.start + Advance(loop.chunk_size, loop.chunk_overlap)]
    /\ UNCHANGED <<libVars, ingestVars, rateVars, ragVars>>

\* _chunk_text: the loop ends and chunks is returned
LoopReturn ==
    /\ loop.pc = "loop"
    /\ loop.start >= Len(loop.text)
    /\ loop' = [loop EXCEPT !.pc = "returned"]
    /\ UNCHANGED <<libVars, ingestVars, rateVars, ragVars>>

NextChunkText == LoopStep \/ LoopReturn

SpecChunkText == InitChunkText /\ [][NextChunkText]_vars

\* a running loop goes on to its next iteration
SpecChunkTextFair ==
    SpecChunkText /\ WF_vars(LoopStep) /\ WF_vars(LoopReturn)

\* the positions 1..Len(text) that the k-th window holds, for the start
\* (k - 1) * (chunk_size - chunk_overlap)
WindowPositions(k) ==
    LET a == (k - 1) * Advance(loop.chunk_size, loop.chunk_overlap)
    IN  {i \in 1..Len(loop.text) :
            SliceBound(loop.text, a) < i
                /\ i <= SliceBound(loop.text, a + loop.chunk_size)}

\* C30: _chunk_text terminates for every text and every pair (chunk_size,
\* chunk_overlap), chunk_overlap >= chunk_size included: the start strictly
\* increases on every iteration, the loop ends, and the windows returned
\* cover the whole text.
C30_ChunkTextTerminates ==
    /\ [][LoopStep => loop'.start > loop.start]_vars
    /\ <>(loop.pc = "returned")
    /\ [](loop.pc = "returned" =>
            UNION {WindowPositions(k) : k \in 1..Len(loop.chunks)}
                = 1..Len(loop.text))

====
